---- MODULE Spec2Model ----
(***************************************************************************)
(* A model of BCI-CP.  The backend: the adaptive difficulty controller     *)
(* (decisionLogicService.ts), the session/trial persistence and the        *)
(* POST /api/sessions/:sessionId/trials handler (routes/sessionRoutes),    *)
(* the LDA classifier (ldaClassifier.ts), the prediction smoother          *)
(* (smoothPredictions), the signal generator (eegSignalService), the       *)
(* feature extractor (featureExtractionService), the preprocessing         *)
(* (preprocessingService) and the /api/eeg routes that take a signal.      *)
(* The client: App, GameBoard's runTrial with its timer, and the           *)
(* useEEGProcessing hook, as far as they send trials to the backend.       *)
(*                                                                         *)
(* Numbers.  JavaScript numbers are IEEE doubles.  The model uses          *)
(*   - exact rationals [num, den] (den > 0, lowest terms) for accuracies   *)
(*     and for the classifier's weights, bias and features, with the       *)
(*     extra value NaN where the code produces one (0/0);                  *)
(*   - fixed point in millionths for the flash speed, the classifier's     *)
(*     confidence and its threshold; a product is rounded to the nearest   *)
(*     millionth, as the double product is rounded to the nearest double.  *)
(***************************************************************************)
EXTENDS Integers, Sequences, FiniteSets, TLC

VARIABLES
    adaptCall,      \* the last adaptDifficulty call: its arguments and its result
    sessions,       \* table Session:          sessionId -> row
    calibrations,   \* table CalibrationState: sessionId -> row
    trials,         \* table Trial (with its Predictions): sessionId -> rows in insertion order
    requests,       \* the POST /:sessionId/trials handlers: slot -> position and locals
    nRequests,      \* number of requests received so far
    classifier,     \* the LDAClassifier object: weights, bias, isTrained, threshold
    lastCall,       \* the last call made on the classifier, with its result
    smoothCall,     \* the last smoothPredictions call: its arguments and its result
    signalCall,     \* the last generateEEGSignal call: its parameters, its noise draws, its result
    featureCall,    \* the last extractFeatures call: its arguments and its result
    eegRequest,     \* the last request to the /api/eeg routes, with its response
    preprocessCall, \* the last preprocessSignal call: its arguments and its result
    app,            \* the App component: appState, session, recentAccuracies, its handleTrialComplete calls in flight
    board,          \* the GameBoard component: its state, its timer, its runTrial calls in flight
    posts           \* the POST /api/sessions/:sessionId/trials requests the client has issued

vars == <<adaptCall, sessions, calibrations, trials, requests, nRequests,
          classifier, lastCall, smoothCall, signalCall, featureCall, eegRequest,
          preprocessCall, app, board, posts>>

adaptVars  == <<adaptCall>>
serverVars == <<sessions, calibrations, trials, requests, nRequests>>
ldaVars    == <<classifier, lastCall>>
pipelineVars == <<smoothCall, signalCall, featureCall, eegRequest, preprocessCall>>
frontendVars == <<app, board, posts>>

----------------------------------------------------------------------------
(* Arithmetic *)

Abs(x) == IF x < 0 THEN -x ELSE x
Min(a, b) == IF a < b THEN a ELSE b
Max(a, b) == IF a > b THEN a ELSE b

RECURSIVE Gcd(_, _)
Gcd(a, b) == IF b = 0 THEN a ELSE Gcd(b, a % b)

\* The rational n/d in lowest terms, d > 0.
Rat(n, d) ==
    LET s == IF d < 0 THEN -1 ELSE 1
        g == Gcd(Abs(n), Abs(d))
    IN  [num |-> (s * n) \div g, den |-> (s * d) \div g]

RInt(n) == [num |-> n, den |-> 1]
RLess(a, b) == a.num * b.den < b.num * a.den
\* Sums over the least common denominator, products after cancelling across:
\* the same rationals, with smaller intermediate products.
RAdd(a, b) ==
    LET g == Gcd(a.den, b.den)
    IN  Rat(a.num * (b.den \div g) + b.num * (a.den \div g), (a.den \div g) * b.den)
RSub(a, b) ==
    LET g == Gcd(a.den, b.den)
    IN  Rat(a.num * (b.den \div g) - b.num * (a.den \div g), (a.den \div g) * b.den)
RMul(a, b) ==
    LET g == Gcd(Abs(a.num), b.den)
        h == Gcd(Abs(b.num), a.den)
    IN  Rat((a.num \div g) * (b.num \div h), (a.den \div h) * (b.den \div g))

\* One, in millionths.
FxOne == 1000 * 1000

\* x * pct/100 in millionths, rounded to the nearest millionth.
FxScale(x, pct) == (x * pct + 50) \div 100

----------------------------------------------------------------------------
(* adaptDifficulty *)

MinFlashSpeed == 600000
MaxFlashSpeed == 1500000
MinObjectCount == 3
MaxObjectCount == 4

\* recentAccuracy > 0.7 and recentAccuracy < 0.4, for a rational accuracy.
IsHighAccuracy(acc) == acc.num * 10 > 7 * acc.den
IsLowAccuracy(acc)  == acc.num * 10 < 4 * acc.den

\* A controller without the bounds: no Math.min / Math.max, and the object
\* count moved whatever its value.  Used to show what the bounds rest on.
AdaptNoClamp(recentAccuracy, currentFlashSpeed, currentObjectCount) ==
    IF IsHighAccuracy(recentAccuracy)
    THEN [newFlashSpeed  |-> FxScale(currentFlashSpeed, 110),
          newObjectCount |-> currentObjectCount + 1,
          notification   |-> "Great job! Adding more objects."]
    ELSE IF IsLowAccuracy(recentAccuracy)
    THEN [newFlashSpeed  |-> FxScale(currentFlashSpeed, 90),
          newObjectCount |-> currentObjectCount - 1,
          notification   |-> "Let's slow down a bit. Removing an object."]
    ELSE [newFlashSpeed  |-> currentFlashSpeed,
          newObjectCount |-> currentObjectCount,
          notification   |-> "You're doing great! Keep going!"]

\* A controller that, at the object count floor, slows by 0.9 only.
AdaptSlowsOnce(recentAccuracy, currentFlashSpeed, currentObjectCount) ==
    IF IsHighAccuracy(recentAccuracy)
    THEN LET sped == Min(MaxFlashSpeed, FxScale(currentFlashSpeed, 110))
         IN  IF currentObjectCount < MaxObjectCount
             THEN [newFlashSpeed  |-> sped,
                   newObjectCount |-> currentObjectCount + 1,
                   notification   |-> "Great job! Adding more objects."]
             ELSE [newFlashSpeed  |-> Min(MaxFlashSpeed, FxScale(sped, 115)),
                   newObjectCount |-> currentObjectCount,
                   notification   |-> "Excellent! Speeding up the game."]
    ELSE IF IsLowAccuracy(recentAccuracy)
    THEN LET slowed == Max(MinFlashSpeed, FxScale(currentFlashSpeed, 90))
         IN  IF currentObjectCount > MinObjectCount
             THEN [newFlashSpeed  |-> slowed,
                   newObjectCount |-> currentObjectCount - 1,
                   notification   |-> "Let's slow down a bit. Removing an object."]
             ELSE [newFlashSpeed  |-> slowed,
                   newObjectCount |-> currentObjectCount,
                   notification   |-> "No worries! We'll take it slower."]
    ELSE [newFlashSpeed  |-> currentFlashSpeed,
          newObjectCount |-> currentObjectCount,
          notification   |-> "You're doing great! Keep going!"]

\* A controller that, at the object count ceiling (floor), applies 1.15
\* (0.85) in place of 1.1 (0.9) and not on top of it.
AdaptSingleFactor(recentAccuracy, currentFlashSpeed, currentObjectCount) ==
    IF IsHighAccuracy(recentAccuracy)
    THEN IF currentObjectCount < MaxObjectCount
         THEN [newFlashSpeed  |-> Min(MaxFlashSpeed, FxScale(currentFlashSpeed, 110)),
               newObjectCount |-> currentObjectCount + 1,
               notification   |-> "Great job! Adding more objects."]
         ELSE [newFlashSpeed  |-> Min(MaxFlashSpeed, FxScale(currentFlashSpeed, 115)),
               newObjectCount |-> currentObjectCount,
               notification   |-> "Excellent! Speeding up the game."]
    ELSE IF IsLowAccuracy(recentAccuracy)
    THEN IF currentObjectCount > MinObjectCount
         THEN [newFlashSpeed  |-> Max(MinFlashSpeed, FxScale(currentFlashSpeed, 85)),
               newObjectCount |-> currentObjectCount - 1,
               notification   |-> "Let's slow down a bit. Removing an object."]
         ELSE [newFlashSpeed  |-> Max(MinFlashSpeed, FxScale(currentFlashSpeed, 85)),
               newObjectCount |-> currentObjectCount,
               notification   |-> "No worries! We'll take it slower."]
    ELSE [newFlashSpeed  |-> currentFlashSpeed,
          newObjectCount |-> currentObjectCount,
          notification   |-> "You're doing great! Keep going!"]

\* A controller that never adds an object: high accuracy only speeds up.
AdaptKeepsObjects(recentAccuracy, currentFlashSpeed, currentObjectCount) ==
    IF IsHighAccuracy(recentAccuracy)
    THEN [newFlashSpeed  |-> Min(MaxFlashSpeed, FxScale(FxScale(currentFlashSpeed, 110), 115)),
          newObjectCount |-> currentObjectCount,
          notification   |-> "Excellent! Speeding up the game."]
    ELSE IF IsLowAccuracy(recentAccuracy)
    THEN LET slowed == Max(MinFlashSpeed, FxScale(currentFlashSpeed, 90))
         IN  IF currentObjectCount > MinObjectCount
             THEN [newFlashSpeed  |-> slowed,
                   newObjectCount |-> currentObjectCount - 1,
                   notification   |-> "Let's slow down a bit. Removing an object."]
             ELSE [newFlashSpeed  |-> Max(MinFlashSpeed, FxScale(slowed, 85)),
                   newObjectCount |-> currentObjectCount,
                   notification   |-> "No worries! We'll take it slower."]
    ELSE [newFlashSpeed  |-> currentFlashSpeed,
          newObjectCount |-> currentObjectCount,
          notification   |-> "You're doing great! Keep going!"]

\* A controller whose bands include their boundaries: high from 0.7 on, low
\* up to 0.4.
AdaptInclusiveBands(recentAccuracy, currentFlashSpeed, currentObjectCount) ==
    IF recentAccuracy.num * 10 >= 7 * recentAccuracy.den
    THEN LET sped == Min(MaxFlashSpeed, FxScale(currentFlashSpeed, 110))
         IN  IF currentObjectCount < MaxObjectCount
             THEN [newFlashSpeed  |-> sped,
                   newObjectCount |-> currentObjectCount + 1,
                   notification   |-> "Great job! Adding more objects."]
             ELSE [newFlashSpeed  |-> Min(MaxFlashSpeed, FxScale(sped, 115)),
                   newObjectCount |-> currentObjectCount,
                   notification   |-> "Excellent! Speeding up the game."]
    ELSE IF recentAccuracy.num * 10 <= 4 * recentAccuracy.den
    THEN LET slowed == Max(MinFlashSpeed, FxScale(currentFlashSpeed, 90))
         IN  IF currentObjectCount > MinObjectCount
             THEN [newFlashSpeed  |-> slowed,
                   newObjectCount |-> currentObjectCount - 1,
                   notification   |-> "Let's slow down a bit. Removing an object."]
             ELSE [newFlashSpeed  |-> Max(MinFlashSpeed, FxScale(slowed, 85)),
                   newObjectCount |-> currentObjectCount,
                   notification   |-> "No worries! We'll take it slower."]
    ELSE [newFlashSpeed  |-> currentFlashSpeed,
          newObjectCount |-> currentObjectCount,
          notification   |-> "You're doing great! Keep going!"]

\* adaptDifficulty(recentAccuracy, currentFlashSpeed, currentObjectCount)
AdaptDifficulty(recentAccuracy, currentFlashSpeed, currentObjectCount) ==
    IF IsHighAccuracy(recentAccuracy)
    THEN LET sped == Min(MaxFlashSpeed, FxScale(currentFlashSpeed, 110))
         IN  IF currentObjectCount < MaxObjectCount
             THEN [newFlashSpeed  |-> sped,
                   newObjectCount |-> currentObjectCount + 1,
                   notification   |-> "Great job! Adding more objects."]
             ELSE [newFlashSpeed  |-> Min(MaxFlashSpeed, FxScale(sped, 115)),
                   newObjectCount |-> currentObjectCount,
                   notification   |-> "Excellent! Speeding up the game."]
    ELSE IF IsLowAccuracy(recentAccuracy)
    THEN LET slowed == Max(MinFlashSpeed, FxScale(currentFlashSpeed, 90))
         IN  IF currentObjectCount > MinObjectCount
             THEN [newFlashSpeed  |-> slowed,
                   newObjectCount |-> currentObjectCount - 1,
                   notification   |-> "Let's slow down a bit. Removing an object."]
             ELSE [newFlashSpeed  |-> Max(MinFlashSpeed, FxScale(slowed, 85)),
                   newObjectCount |-> currentObjectCount,
                   notification   |-> "No worries! We'll take it slower."]
    ELSE [newFlashSpeed  |-> currentFlashSpeed,
          newObjectCount |-> currentObjectCount,
          notification   |-> "You're doing great! Keep going!"]

----------------------------------------------------------------------------
(* adaptDifficulty as a pure function: the inputs of a call *)

\* Longest window of trials an accuracy is taken over (the last 10 trials).
RecentWindow == 10

\* Every accuracy k/n over a window of n <= RecentWindow trials.
AccuracyInputs ==
    {q \in {Rat(k, n) : k \in 0..RecentWindow, n \in 1..RecentWindow} : q.num <= q.den}

\* Flash speeds passed in: in, at and beyond the bounds 0.6 and 1.5.
FlashSpeedInputs == {500000, 600000, 650000, 700000, 800000, 1000000,
                     1200000, 1300000, 1400000, 1500000, 2000000}

\* Object counts passed in: the two legal ones and one beyond each.
ObjectCountInputs == (MinObjectCount - 1)..(MaxObjectCount + 1)

AdaptCallOf(acc, fs, oc) ==
    [recentAccuracy     |-> acc,
     currentFlashSpeed  |-> fs,
     currentObjectCount |-> oc,
     result             |-> AdaptDifficulty(acc, fs, oc)]

\* The call the other specifications leave in adaptCall.
FirstAdaptCall == AdaptCallOf(Rat(1, 2), FxOne, MinObjectCount)

\* The calibrations a session can hold within the bounds: flash speeds from
\* 0.6 to 1.5 in steps of 0.05, three or four objects.
SpeedStep == FxOne \div 20
InBoundsFlashSpeeds ==
    {MinFlashSpeed + k * SpeedStep : k \in 0..((MaxFlashSpeed - MinFlashSpeed) \div SpeedStep)}
InBoundsObjectCounts == MinObjectCount..MaxObjectCount

\* Recent accuracies of a run of trials: two of the low band, two of the
\* high band.
RegimeAccuracies == {Rat(0, 1), Rat(3, 10), Rat(4, 5), Rat(1, 1)}

SameRegime(a, b) ==
    /\ IsHighAccuracy(a) <=> IsHighAccuracy(b)
    /\ IsLowAccuracy(a) <=> IsLowAccuracy(b)

\* The band the run's recent accuracy is in, and the two calibrations at the
\* ends of the bounds, as the last trial left them.
HighRegime == adaptCall.recentAccuracy \in {a \in RegimeAccuracies : IsHighAccuracy(a)}
LowRegime == adaptCall.recentAccuracy \in {a \in RegimeAccuracies : IsLowAccuracy(a)}
AtHardest ==
    /\ adaptCall.result.newFlashSpeed = MaxFlashSpeed
    /\ adaptCall.result.newObjectCount = MaxObjectCount
AtEasiest ==
    /\ adaptCall.result.newFlashSpeed = MinFlashSpeed
    /\ adaptCall.result.newObjectCount = MinObjectCount

\* The next trial of the session: the route reads the calibration the last
\* trial wrote, adapts it to the new recent accuracy and writes it back.
AdaptNextTrial ==
    /\ \E acc \in RegimeAccuracies :
           /\ SameRegime(acc, adaptCall.recentAccuracy)
           /\ adaptCall' = AdaptCallOf(acc, adaptCall.result.newFlashSpeed,
                                       adaptCall.result.newObjectCount)
    /\ UNCHANGED <<serverVars, ldaVars, pipelineVars, frontendVars>>

CallAdaptDifficulty ==
    /\ \E acc \in AccuracyInputs, fs \in FlashSpeedInputs, oc \in ObjectCountInputs :
           adaptCall' = AdaptCallOf(acc, fs, oc)
    /\ UNCHANGED <<serverVars, ldaVars, pipelineVars, frontendVars>>

----------------------------------------------------------------------------
(* The persistence store: tables Session, CalibrationState, Trial/Prediction *)

MaxSessions == 1        \* sessions created
MaxTrialNumber == 2     \* largest trialNumber a request carries
MaxRequests == 2        \* POST /:sessionId/trials requests received

\* One id more than sessions created: the last one is never a session.
SessionIds == 1..(MaxSessions + 1)

TargetTypes == {"target", "nontarget"}
Predictions == {"YES", "NO"}
Confidences == {850000}
ResponseTimes == {1000}

\* Session row defaults: status 'active', totalTrials 0, accuracy 0.
NewSessionRow == [status |-> "active", totalTrials |-> 0, accuracy |-> RInt(0)]

\* CalibrationState row as createSession makes it: flashSpeed 1.0, objectCount 3
\* given, the other columns by their defaults.
NewCalibrationRow ==
    [flashSpeed          |-> FxOne,
     objectCount         |-> 3,
     recentAccuracy      |-> Rat(1, 2),
     confidenceThreshold |-> 500000,
     trialInterval       |-> 2000]

\* The accuracy column of a Trial.
IsCorrect(targetType, prediction) ==
    \/ targetType = "target" /\ prediction = "YES"
    \/ targetType = "nontarget" /\ prediction = "NO"

NewPrediction(body) == [prediction |-> body.prediction, confidence |-> body.confidence]

\* responseTime || 0
ResponseTimeOf(body) == body.responseTime

\* An upsert that inserts a row whether or not the trial number is taken.
UpsertAlwaysInserts(rows, body) ==
    Append(rows,
        [trialNumber  |-> body.trialNumber,
         targetType   |-> body.targetType,
         responseTime |-> ResponseTimeOf(body),
         accuracy     |-> IsCorrect(body.targetType, body.prediction),
         predictions  |-> <<NewPrediction(body)>>])

\* prisma.trial.upsert by (sessionId, trialNumber) on the session's rows.
UpsertTrial(rows, body) ==
    IF \E i \in 1..Len(rows) : rows[i].trialNumber = body.trialNumber
    THEN [i \in 1..Len(rows) |->
            IF rows[i].trialNumber = body.trialNumber
            THEN [rows[i] EXCEPT
                    !.responseTime = ResponseTimeOf(body),
                    !.accuracy     = IsCorrect(body.targetType, body.prediction),
                    !.predictions  = Append(@, NewPrediction(body))]
            ELSE rows[i]]
    ELSE Append(rows,
            [trialNumber  |-> body.trialNumber,
             targetType   |-> body.targetType,
             responseTime |-> ResponseTimeOf(body),
             accuracy     |-> IsCorrect(body.targetType, body.prediction),
             predictions  |-> <<NewPrediction(body)>>])

\* Number of rows flagged correct.
CorrectCount(rows) == Cardinality({i \in 1..Len(rows) : rows[i].accuracy})

\* An aggregate that misses the row just written.
SessionTotalsStale(rows) ==
    [totalTrials |-> Len(rows) - 1,
     accuracy    |-> IF Len(rows) > 1 THEN Rat(CorrectCount(rows), Len(rows) - 1) ELSE RInt(0)]

\* recordTrial's aggregate: totalTrials and accuracy of the rows read.
SessionTotals(rows) ==
    [totalTrials |-> Len(rows),
     accuracy    |-> IF Len(rows) > 0 THEN Rat(CorrectCount(rows), Len(rows)) ELSE RInt(0)]

\* session.trials.slice(-10)
RecentTrials(rows) ==
    IF Len(rows) <= RecentWindow THEN rows
    ELSE SubSeq(rows, Len(rows) - RecentWindow + 1, Len(rows))

\* The handler's recentAccuracy: correct / length of the recent trials, 0.5 on none.
RecentAccuracy(rows) ==
    LET recent == RecentTrials(rows)
    IN  IF Len(recent) > 0 THEN Rat(CorrectCount(recent), Len(recent)) ELSE Rat(1, 2)

----------------------------------------------------------------------------
(* POST /api/sessions  and  POST /api/sessions/:sessionId/trials *)

\* Request bodies that pass the handler's validation.
ValidBodies ==
    [trialNumber        : 1..MaxTrialNumber,
     targetType         : TargetTypes,
     prediction         : Predictions,
     confidence         : Confidences,
     confidenceIsNumber : {TRUE},
     responseTime       : ResponseTimes]

BaseBody == CHOOSE b \in ValidBodies : TRUE

\* One body for each way of failing it: trialNumber 0 or absent, targetType
\* absent, prediction absent, confidence not a number.
InvalidBodies ==
    {[BaseBody EXCEPT !.trialNumber = 0],
     [BaseBody EXCEPT !.targetType = ""],
     [BaseBody EXCEPT !.prediction = ""],
     [BaseBody EXCEPT !.confidenceIsNumber = FALSE]}

\* !trialNumber || !targetType || !prediction || typeof confidence !== 'number'
MissingFields(body) ==
    \/ body.trialNumber = 0
    \/ body.targetType = ""
    \/ body.prediction = ""
    \/ ~body.confidenceIsNumber

\* What a handler holds of the store between its awaits, and what the store
\* held of its session when the request arrived (pre).
NoSnapshot == [exists |-> FALSE, session |-> NewSessionRow,
               calibration |-> NewCalibrationRow, trials |-> <<>>]

SnapshotOf(s) ==
    IF s \in DOMAIN sessions
    THEN [exists |-> TRUE, session |-> sessions[s],
          calibration |-> calibrations[s], trials |-> trials[s]]
    ELSE NoSnapshot

IdleRequest ==
    [pc        |-> "idle",
     method    |-> "POST",
     sessionId |-> 1,
     body      |-> BaseBody,
     status    |-> 0,
     totals    |-> SessionTotals(<<>>),
     update    |-> NewCalibrationRow,
     pre       |-> NoSnapshot]

Slots == {1, 2}

\* The handler answers with `status`: res.status(...).json(...), its locals gone.
Answer(req, status) ==
    [req EXCEPT !.pc = "done", !.status = status,
                !.totals = IdleRequest.totals, !.update = IdleRequest.update]

InFlight == {r \in Slots : requests[r].pc \notin {"idle", "done"}}

\* createSession: a Session row and its CalibrationState row.
CreateSession ==
    /\ Cardinality(DOMAIN sessions) < MaxSessions
    /\ LET s == Cardinality(DOMAIN sessions) + 1
       IN  /\ sessions' = sessions @@ (s :> NewSessionRow)
           /\ calibrations' = calibrations @@ (s :> NewCalibrationRow)
           /\ trials' = trials @@ (s :> <<>>)
    /\ UNCHANGED <<requests, nRequests, adaptVars, ldaVars, pipelineVars, frontendVars>>

\* The handler up to its first await: 400 on missing fields, else recordTrial
\* is entered.  At most `limit` handlers are between their awaits at a time;
\* the request names a session of `ids` and carries a body of `bodies`.
Receive(r, limit, ids, bodies) ==
    /\ nRequests < MaxRequests
    /\ r \notin InFlight
    /\ \A q \in Slots : q < r => q \in InFlight
    /\ Cardinality(InFlight) < limit
    /\ \E s \in ids, body \in bodies :
           requests' = [q \in Slots |->
               IF q = r
               THEN [IdleRequest EXCEPT
                        !.pc        = IF MissingFields(body) THEN "done" ELSE "upsert",
                        !.status    = IF MissingFields(body) THEN 400 ELSE 0,
                        !.sessionId = s,
                        !.body      = body,
                        !.pre       = SnapshotOf(s)]
               ELSE IF q \in InFlight THEN requests[q]
               ELSE IdleRequest]
    /\ nRequests' = nRequests + 1
    /\ UNCHANGED <<sessions, calibrations, trials, adaptVars, ldaVars, pipelineVars, frontendVars>>

\* recordTrial: await prisma.trial.upsert.  The Trial's foreign key rejects a
\* sessionId that is no Session: the call throws and the handler answers 500.
Upsert(r) ==
    /\ requests[r].pc = "upsert"
    /\ LET s == requests[r].sessionId
       IN  IF s \in DOMAIN sessions
           THEN /\ trials' = [trials EXCEPT ![s] = UpsertTrial(@, requests[r].body)]
                /\ requests' = [requests EXCEPT ![r].pc = "rtGetSession"]
           ELSE /\ requests' = [requests EXCEPT ![r] = Answer(@, 500)]
                /\ UNCHANGED trials
    /\ UNCHANGED <<sessions, calibrations, nRequests, adaptVars, ldaVars, pipelineVars,
                   frontendVars>>

\* recordTrial: await getSession, then the totals of the rows read.
RtGetSession(r) ==
    /\ requests[r].pc = "rtGetSession"
    /\ LET s == requests[r].sessionId
       IN  IF s \in DOMAIN sessions
           THEN requests' = [requests EXCEPT
                    ![r].pc     = "rtUpdate",
                    ![r].totals = SessionTotals(trials[s])]
           ELSE requests' = [requests EXCEPT ![r].pc = "getSession"]
    /\ UNCHANGED <<sessions, calibrations, trials, nRequests, adaptVars, ldaVars,
                   pipelineVars, frontendVars>>

\* recordTrial: await prisma.session.update with the totals computed.
RtUpdate(r) ==
    /\ requests[r].pc = "rtUpdate"
    /\ LET s == requests[r].sessionId
       IN  sessions' = [sessions EXCEPT
               ![s].totalTrials = requests[r].totals.totalTrials,
               ![s].accuracy    = requests[r].totals.accuracy]
    /\ requests' = [requests EXCEPT ![r].pc = "getSession"]
    /\ UNCHANGED <<calibrations, trials, nRequests, adaptVars, ldaVars, pipelineVars, frontendVars>>

\* The handler: await getSession, then recentAccuracy and adaptDifficulty on
\* the calibration read.
GetSession(r) ==
    /\ requests[r].pc = "getSession"
    /\ LET s == requests[r].sessionId
       IN  IF s \in DOMAIN sessions /\ s \in DOMAIN calibrations
           THEN LET recentAccuracy == RecentAccuracy(trials[s])
                    cal == calibrations[s]
                    new == AdaptDifficulty(recentAccuracy, cal.flashSpeed, cal.objectCount)
                IN  requests' = [requests EXCEPT
                        ![r].pc     = "updateCalibration",
                        ![r].update = [cal EXCEPT
                            !.flashSpeed          = new.newFlashSpeed,
                            !.objectCount         = new.newObjectCount,
                            !.recentAccuracy      = recentAccuracy,
                            !.confidenceThreshold = cal.confidenceThreshold]]
           ELSE requests' = [requests EXCEPT ![r] = Answer(@, 500)]
    /\ UNCHANGED <<sessions, calibrations, trials, nRequests, adaptVars, ldaVars,
                   pipelineVars, frontendVars>>

\* updateCalibrationState: await prisma.calibrationState.update, then 201.
UpdateCalibration(r) ==
    /\ requests[r].pc = "updateCalibration"
    /\ LET s == requests[r].sessionId
           u == requests[r].update
       IN  calibrations' = [calibrations EXCEPT
               ![s].flashSpeed          = u.flashSpeed,
               ![s].objectCount         = u.objectCount,
               ![s].recentAccuracy      = u.recentAccuracy,
               ![s].confidenceThreshold = u.confidenceThreshold]
    /\ requests' = [requests EXCEPT ![r] = Answer(@, 201)]
    /\ UNCHANGED <<sessions, trials, nRequests, adaptVars, ldaVars, pipelineVars, frontendVars>>

\* A persistence call after the upsert rejects (the store is busy, the write
\* conflicts): the exception reaches the handler's catch, which answers 500.
PersistenceFails(r) ==
    /\ requests[r].pc \in {"rtGetSession", "rtUpdate", "getSession", "updateCalibration"}
    /\ requests' = [requests EXCEPT ![r] = Answer(@, 500)]
    /\ UNCHANGED <<sessions, calibrations, trials, nRequests, adaptVars, ldaVars,
                   pipelineVars, frontendVars>>

\* The upsert itself rejects: nothing is written.
UpsertFails(r) ==
    /\ requests[r].pc = "upsert"
    /\ requests' = [requests EXCEPT ![r] = Answer(@, 500)]
    /\ UNCHANGED <<sessions, calibrations, trials, nRequests, adaptVars, ldaVars,
                   pipelineVars, frontendVars>>

\* GET /api/sessions/:sessionId up to its await of getSession.
ReceiveGet(r, ids) ==
    /\ nRequests < MaxRequests
    /\ InFlight = {}
    /\ \A q \in Slots : q < r => q \in InFlight
    /\ \E s \in ids :
           requests' = [q \in Slots |->
               IF q = r
               THEN [IdleRequest EXCEPT
                        !.pc = "fetch", !.method = "GET",
                        !.sessionId = s, !.pre = SnapshotOf(s)]
               ELSE IdleRequest]
    /\ nRequests' = nRequests + 1
    /\ UNCHANGED <<sessions, calibrations, trials, adaptVars, ldaVars, pipelineVars, frontendVars>>

\* GET /api/sessions/:sessionId: getSession returns the session or null;
\* null is answered 404, a session 200.
GetRoute(r) ==
    /\ requests[r].pc = "fetch"
    /\ requests' = [requests EXCEPT
           ![r] = Answer(@, IF requests[r].sessionId \in DOMAIN sessions
                            THEN 200 ELSE 404)]
    /\ UNCHANGED <<sessions, calibrations, trials, nRequests, adaptVars, ldaVars,
                   pipelineVars, frontendVars>>

\* The handler's next await returns.
HandlerStep(r) ==
    \/ Upsert(r)
    \/ RtGetSession(r)
    \/ RtUpdate(r)
    \/ GetSession(r)
    \/ UpdateCalibration(r)

\* The handler's next await rejects.
HandlerFails(r) ==
    \/ UpsertFails(r)
    \/ PersistenceFails(r)

ServerInit ==
    /\ sessions = <<>>
    /\ calibrations = <<>>
    /\ trials = <<>>
    /\ requests = [r \in Slots |-> IdleRequest]
    /\ nRequests = 0

----------------------------------------------------------------------------
(* LDAClassifier: numbers with NaN *)

\* 0/0, the only non-finite value the training arithmetic produces.
NaN == [num |-> 0, den |-> 0]
IsNaN(x) == x.den = 0

NAdd(a, b) == IF IsNaN(a) \/ IsNaN(b) THEN NaN ELSE RAdd(a, b)
NSub(a, b) == IF IsNaN(a) \/ IsNaN(b) THEN NaN ELSE RSub(a, b)
NMul(a, b) == IF IsNaN(a) \/ IsNaN(b) THEN NaN ELSE RMul(a, b)
\* a / n for a count n: 0/0 is NaN (a nonzero a is never divided by 0 here).
NDivInt(a, n) == IF IsNaN(a) \/ n = 0 THEN NaN ELSE Rat(a.num, a.den * n)

Zero == RInt(0)

\* [features.mean, features.peak, features.latency]
FeatureArray(f) == <<f.mean, f.peak, f.latency>>

\* a.reduce((sum, val, i) => sum + val * b[i], 0)
DotProduct(a, b) ==
    NAdd(NAdd(NAdd(Zero, NMul(a[1], b[1])), NMul(a[2], b[2])), NMul(a[3], b[3]))

RECURSIVE SumVectors(_)
SumVectors(fs) ==
    IF Len(fs) = 0 THEN <<Zero, Zero, Zero>>
    ELSE LET rest == SumVectors(SubSeq(fs, 1, Len(fs) - 1))
             f == FeatureArray(fs[Len(fs)])
         IN  <<NAdd(rest[1], f[1]), NAdd(rest[2], f[2]), NAdd(rest[3], f[3])>>

CalculateMean(features) ==
    LET sum == SumVectors(features)
        n == Len(features)
    IN  <<NDivInt(sum[1], n), NDivInt(sum[2], n), NDivInt(sum[3], n)>>

\* Sum over a class of diff[i] * diff[j].
RECURSIVE Scatter(_, _, _, _)
Scatter(class, mean, i, j) ==
    IF Len(class) = 0 THEN Zero
    ELSE LET f == FeatureArray(class[Len(class)])
         IN  NAdd(Scatter(SubSeq(class, 1, Len(class) - 1), mean, i, j),
                  NMul(NSub(f[i], mean[i]), NSub(f[j], mean[j])))

\* The pooled covariance before its diagonal gets 1e-6 added: the sums of both
\* classes divided by n - 2.  The matrix the code returns is this one plus
\* 1e-6 * I; the 1e-6 is carried by Invert3x3.
CovarianceEntry(class1, class2, mean1, mean2, i, j) ==
    NDivInt(NAdd(Scatter(class1, mean1, i, j), Scatter(class2, mean2, i, j)),
            Len(class1) + Len(class2) - 2)

CalculatePooledCovariance(class1, class2, mean1, mean2) ==
    LET Row(i) == <<CovarianceEntry(class1, class2, mean1, mean2, i, 1),
                    CovarianceEntry(class1, class2, mean1, mean2, i, 2),
                    CovarianceEntry(class1, class2, mean1, mean2, i, 3)>>
    IN  <<Row(1), Row(2), Row(3)>>

Identity3 == <<<<RInt(1), Zero, Zero>>, <<Zero, RInt(1), Zero>>, <<Zero, Zero, RInt(1)>>>>
NaN3 == <<<<NaN, NaN, NaN>>, <<NaN, NaN, NaN>>, <<NaN, NaN, NaN>>>>

\* det(s + e*I) = d0 + d1*e + d2*e^2 + e^3 for e = 1e-6, with d0 = det s,
\* d1 the sum of the principal 2x2 minors of s and d2 its trace.
Det3(s) ==
    RAdd(RSub(RMul(s[1][1], RSub(RMul(s[2][2], s[3][3]), RMul(s[2][3], s[3][2]))),
              RMul(s[1][2], RSub(RMul(s[2][1], s[3][3]), RMul(s[2][3], s[3][1])))),
         RMul(s[1][3], RSub(RMul(s[2][1], s[3][2]), RMul(s[2][2], s[3][1]))))

Minors2(s) ==
    RAdd(RAdd(RSub(RMul(s[1][1], s[2][2]), RMul(s[1][2], s[2][1])),
              RSub(RMul(s[1][1], s[3][3]), RMul(s[1][3], s[3][1]))),
         RSub(RMul(s[2][2], s[3][3]), RMul(s[2][3], s[3][2])))

Trace3(s) == RAdd(RAdd(s[1][1], s[2][2]), s[3][3])

\* Math.abs(det) < 1e-10 for the matrix s + 1e-6 * I, s a scatter matrix
\* (positive semidefinite, entries with small denominators): d0 and d1 vanish
\* and d2 * 1e-12 + 1e-18 < 1e-10.
NearlySingular(s) ==
    /\ Det3(s) = Zero
    /\ Minors2(s) = Zero
    /\ RLess(Trace3(s), RInt(100))

\* invert3x3 of s + 1e-6 * I.  A NaN determinant is not < 1e-10, and every
\* cofactor over it is NaN.  The cofactor branch for a finite determinant of
\* at least 1e-10 is not modelled: the training sets of the model (collinear
\* examples of small norm) never reach it.
Invert3x3(s) ==
    CASE IsNaN(s[1][1]) -> NaN3
      [] ~IsNaN(s[1][1]) /\ NearlySingular(s) -> Identity3

\* result[i] = matrix[i][0]*vector[0] + matrix[i][1]*vector[1] + matrix[i][2]*vector[2]
MatrixVectorMultiply(matrix, vector) ==
    LET Row(i) == NAdd(NAdd(NMul(matrix[i][1], vector[1]), NMul(matrix[i][2], vector[2])),
                       NMul(matrix[i][3], vector[3]))
    IN  <<Row(1), Row(2), Row(3)>>

----------------------------------------------------------------------------
(* LDAClassifier: sigmoid, fields, train, predict, setThreshold *)

\* The confidence that is NaN, among confidences in millionths.
NaNFx == 0 - 1

\* 1/(1+e^-k) in millionths for k = 0..14.
SigmoidTable ==
    <<500000, 731059, 880797, 952574, 982014, 993307, 997527, 999089,
      999665, 999877, 999955, 999983, 999994, 999998, 999999>>

\* 1/(1+e^-x) for a rational x >= 0: the table, linear between its entries;
\* a double 1 + e^-x is 1 exactly from x = 37 on.
SigmoidNonNeg(x) ==
    LET k == x.num \div x.den
        frac == x.num - k * x.den
    IN  IF k >= 37 THEN FxOne
        ELSE IF k >= 14 THEN SigmoidTable[15]
        ELSE SigmoidTable[k + 1]
               + ((SigmoidTable[k + 2] - SigmoidTable[k + 1]) * frac) \div x.den

\* 1 / (1 + Math.exp(-x)).  NaN for NaN; for x < 0 the double is positive
\* until e^-x overflows (x < -709), and 0 from there.
Sigmoid(x) ==
    IF IsNaN(x) THEN NaNFx
    ELSE IF x.num >= 0 THEN SigmoidNonNeg(x)
    ELSE IF -x.num > 709 * x.den THEN 0
    ELSE Max(1, FxOne - SigmoidNonNeg([num |-> -x.num, den |-> x.den]))

\* a > b on confidences: false when either is NaN.
FxGreater(a, b) == a # NaNFx /\ b # NaNFx /\ a > b

\* Field initialisers of LDAClassifier.
NewClassifier ==
    [weights   |-> <<Zero, Zero, Zero>>,
     bias      |-> Zero,
     isTrained |-> FALSE,
     threshold |-> 500000]

\* A default classifier that gives the latency no weight.
ClassifierWithoutLatency ==
    [NewClassifier EXCEPT
        !.weights   = <<Rat(5, 2), RInt(3), Zero>>,
        !.isTrained = TRUE,
        !.bias      = Rat(-6, 5)]

\* DefaultLDAClassifier: setWeights([2.5, 3.0, 0.5]) marks it trained, setBias(-1.2).
DefaultClassifier ==
    [NewClassifier EXCEPT
        !.weights   = <<Rat(5, 2), RInt(3), Rat(1, 2)>>,
        !.isTrained = TRUE,
        !.bias      = Rat(-6, 5)]

\* The features of the examples labelled 'YES' / not labelled 'YES', in order.
YesFeatures(data) ==
    SelectSeq([i \in 1..Len(data.labels) |-> [f |-> data.features[i], l |-> data.labels[i]]],
              LAMBDA e : e.l = "YES")
NoFeatures(data) ==
    SelectSeq([i \in 1..Len(data.labels) |-> [f |-> data.features[i], l |-> data.labels[i]]],
              LAMBDA e : e.l # "YES")

Features(examples) == [i \in 1..Len(examples) |-> examples[i].f]

\* train's two early returns.
InvalidTrainingData(data) ==
    Len(data.features) = 0 \/ Len(data.labels) # Len(data.features)
MissingClass(data) ==
    Len(YesFeatures(data)) = 0 \/ Len(NoFeatures(data)) = 0

\* train past its early returns: the weights and the bias it stores.
LdaParameters(data) ==
         LET yes == Features(YesFeatures(data))
             no == Features(NoFeatures(data))
             meanYes == CalculateMean(yes)
             meanNo == CalculateMean(no)
             covInv == Invert3x3(CalculatePooledCovariance(yes, no, meanYes, meanNo))
             meanDiff == <<NSub(meanYes[1], meanNo[1]), NSub(meanYes[2], meanNo[2]),
                           NSub(meanYes[3], meanNo[3])>>
             meanSum == <<NAdd(meanYes[1], meanNo[1]), NAdd(meanYes[2], meanNo[2]),
                          NAdd(meanYes[3], meanNo[3])>>
             w == MatrixVectorMultiply(covInv, meanDiff)
         IN  [weights |-> w,
              bias    |-> NMul(Rat(-1, 2), DotProduct(w, meanSum))]

\* A predict without the fallback for an untrained classifier.
PredictNoFallback(c, features) ==
    LET confidence == Sigmoid(NAdd(DotProduct(c.weights, FeatureArray(features)), c.bias))
    IN  [prediction |-> IF FxGreater(confidence, c.threshold) THEN "YES" ELSE "NO",
         confidence |-> confidence]

\* A predict that answers YES from confidence >= threshold on.
PredictAtLeast(c, features) ==
    IF ~c.isTrained THEN [prediction |-> "NO", confidence |-> 500000]
    ELSE LET confidence == Sigmoid(NAdd(DotProduct(c.weights, FeatureArray(features)), c.bias))
         IN  [prediction |-> IF confidence # NaNFx /\ confidence >= c.threshold
                             THEN "YES" ELSE "NO",
              confidence |-> confidence]

\* predict(features) on the object c.
Predict(c, features) ==
    IF ~c.isTrained THEN [prediction |-> "NO", confidence |-> 500000]
    ELSE LET score == NAdd(DotProduct(c.weights, FeatureArray(features)), c.bias)
             confidence == Sigmoid(score)
         IN  [prediction |-> IF FxGreater(confidence, c.threshold) THEN "YES" ELSE "NO",
              confidence |-> confidence]

\* setThreshold: Math.max(0, Math.min(1, threshold))
ClampThreshold(threshold) == Max(0, Min(FxOne, threshold))

----------------------------------------------------------------------------
(* The calls made on a classifier *)

MaxTrain == 3       \* examples in a training set

\* Feature vectors of training examples: collinear and of small norm, so the
\* pooled covariance is NaN (two examples) or nearly singular.
TrainVector(k) == [mean |-> RInt(k), peak |-> RInt(2 * k), latency |-> RInt(3 * k)]

\* Labelled examples; 'nontarget' is the label generateTrainingData gives.
Examples ==
    {[f |-> TrainVector(1), l |-> "YES"],
     [f |-> TrainVector(2), l |-> "YES"],
     [f |-> TrainVector(0), l |-> "NO"],
     [f |-> TrainVector(0), l |-> "nontarget"]}

ExampleLists == UNION {[1..n -> Examples] : n \in 0..MaxTrain}

AlignedData(ex) ==
    [features |-> [i \in 1..Len(ex) |-> ex[i].f],
     labels   |-> [i \in 1..Len(ex) |-> ex[i].l]]

\* Training sets: labels aligned 1:1 with features, or one label short.
TrainingSets ==
    {AlignedData(ex) : ex \in ExampleLists} \cup
    {[AlignedData(ex) EXCEPT !.labels = SubSeq(@, 1, Len(@) - 1)] :
        ex \in ExampleLists \ {<<>>}}

\* Feature vectors classified: the training vectors, one on the default
\* classifier's boundary (2.5 * 0.48 = 1.2), one below it, and one as
\* extractFeatures gives for a target epoch.
PredictInputs ==
    {TrainVector(0), TrainVector(1), TrainVector(2),
     [mean |-> Rat(12, 25), peak |-> Zero, latency |-> Zero],
     [mean |-> RInt(-1), peak |-> Zero, latency |-> Zero],
     [mean |-> RInt(1), peak |-> RInt(5), latency |-> RInt(450)]}

\* Arguments of setThreshold, in millionths: below, in and above [0, 1].
ThresholdInputs == {-500000, 0, 250000, 500000, 1000000, 1500000}

\* LdaParameters of every training set train does not return early on,
\* evaluated once.
TrainedParameters ==
    [data \in {d \in TrainingSets : ~InvalidTrainingData(d) /\ ~MissingClass(d)} |->
        LdaParameters(data)] @@ <<>>

\* A train that resets the parameters when a class is missing.
TrainResetsOnReject(c, data) ==
    IF InvalidTrainingData(data) THEN c
    ELSE IF MissingClass(data) THEN [NewClassifier EXCEPT !.threshold = c.threshold]
    ELSE [c EXCEPT
            !.weights   = TrainedParameters[data].weights,
            !.bias      = TrainedParameters[data].bias,
            !.isTrained = TRUE]

\* train(data) on the object c.
Train(c, data) ==
    IF InvalidTrainingData(data) THEN c
    ELSE IF MissingClass(data) THEN c
    ELSE [c EXCEPT
            !.weights   = TrainedParameters[data].weights,
            !.bias      = TrainedParameters[data].bias,
            !.isTrained = TRUE]

LabelSet(labels) == {labels[i] : i \in 1..Len(labels)}

NoCall ==
    [op        |-> "new",
     nFeatures |-> 0,
     nLabels   |-> 0,
     labelSet  |-> {},
     features  |-> TrainVector(0),
     arg       |-> 0,
     result    |-> [prediction |-> "NO", confidence |-> 0]]

TrainCall ==
    /\ \E data \in TrainingSets :
        /\ classifier' = Train(classifier, data)
        /\ lastCall' = [NoCall EXCEPT
                !.op        = "train",
                !.nFeatures = Len(data.features),
                !.nLabels   = Len(data.labels),
                !.labelSet  = LabelSet(data.labels)]
    /\ UNCHANGED <<adaptVars, serverVars, pipelineVars, frontendVars>>

PredictCall ==
    /\ \E features \in PredictInputs :
        lastCall' = [NoCall EXCEPT
                !.op       = "predict",
                !.features = features,
                !.result   = Predict(classifier, features)]
    /\ UNCHANGED <<classifier, adaptVars, serverVars, pipelineVars, frontendVars>>

SetThresholdCall ==
    /\ \E threshold \in ThresholdInputs :
        /\ classifier' = [classifier EXCEPT !.threshold = ClampThreshold(threshold)]
        /\ lastCall' = [NoCall EXCEPT !.op = "setThreshold", !.arg = threshold]
    /\ UNCHANGED <<adaptVars, serverVars, pipelineVars, frontendVars>>

LdaInit ==
    /\ classifier \in {NewClassifier, DefaultClassifier}
    /\ lastCall = NoCall

----------------------------------------------------------------------------
(* smoothPredictions *)

\* A prediction of the classifier, as the smoother takes it.
PredictionEntry(label, confidence) == [prediction |-> label, confidence |-> confidence]

\* windowSize when the caller gives none.
DefaultWindowSize == 5

\* predictions.slice(Math.max(0, predictions.length - windowSize))
SmoothWindow(predictions, windowSize) ==
    SubSeq(predictions, Max(0, Len(predictions) - windowSize) + 1, Len(predictions))

\* The loop over the window: weight = i + 1,
\* weightedConfidence += window[i].confidence * weight.
RECURSIVE WeightedConfidence(_, _)
WeightedConfidence(window, n) ==
    IF n = 0 THEN Zero
    ELSE NAdd(WeightedConfidence(window, n - 1),
              NMul(window[n].confidence, RInt(n)))

\* weightSum += weight
RECURSIVE WeightSum(_)
WeightSum(n) == IF n = 0 THEN 0 ELSE WeightSum(n - 1) + n

\* window.filter(p => p.prediction === 'YES').length
YesCount(window) == Cardinality({i \in 1..Len(window) : window[i].prediction = "YES"})

\* Math.ceil(n / 2)
CeilHalf(n) == (n + 1) \div 2

\* A smoother that averages the window without weights.
SmoothUnweighted(predictions, windowSize) ==
    IF Len(predictions) = 0
    THEN [decision |-> "NO", confidence |-> Rat(1, 2)]
    ELSE LET window == SmoothWindow(predictions, windowSize)
             ones == [i \in 1..Len(window) |->
                         [window[i] EXCEPT !.confidence = NDivInt(@, i)]]
         IN  [decision |-> IF YesCount(window) >= CeilHalf(Len(window))
                             THEN "YES" ELSE "NO",
              confidence |-> NDivInt(WeightedConfidence(ones, Len(ones)), Len(window))]

\* A smoother that answers YES only on a strict majority.
SmoothStrictMajority(predictions, windowSize) ==
    IF Len(predictions) = 0
    THEN [decision |-> "NO", confidence |-> Rat(1, 2)]
    ELSE LET window == SmoothWindow(predictions, windowSize)
         IN  [decision |-> IF 2 * YesCount(window) > Len(window)
                             THEN "YES" ELSE "NO",
              confidence |-> NDivInt(WeightedConfidence(window, Len(window)),
                                     WeightSum(Len(window)))]

\* smoothPredictions(predictions, windowSize): no prediction gives NO at
\* confidence 0.5; otherwise the weighted mean of the window's confidences
\* (0/0 = NaN for an empty window) and YES when yesCount >= ceil(length/2).
SmoothPredictions(predictions, windowSize) ==
    IF Len(predictions) = 0
    THEN [decision |-> "NO", confidence |-> Rat(1, 2)]
    ELSE LET window == SmoothWindow(predictions, windowSize)
             avgConfidence == NDivInt(WeightedConfidence(window, Len(window)),
                                      WeightSum(Len(window)))
             threshold == CeilHalf(Len(window))
             decision == IF YesCount(window) >= threshold THEN "YES" ELSE "NO"
         IN  [decision |-> decision, confidence |-> avgConfidence]

\* The calls made on the smoother: histories of up to MaxPredictions
\* predictions and a window size (0 keeps no entry, 5 is the default).
MaxPredictions == 3

SmoothEntries ==
    { PredictionEntry("YES", Rat(17, 20)), PredictionEntry("YES", Rat(18, 25)),
      PredictionEntry("NO", Rat(11, 20)), PredictionEntry("YES", Rat(9, 10)) }

PredictionLists == UNION { [1..n -> SmoothEntries] : n \in 0..MaxPredictions }

WindowSizes == {0, 1, 2, DefaultWindowSize}

SmoothCallOf(predictions, windowSize) ==
    [ predictions |-> predictions, windowSize |-> windowSize,
      result |-> SmoothPredictions(predictions, windowSize) ]

\* Before any call: the call on no prediction.
NoSmoothCall == SmoothCallOf(<<>>, DefaultWindowSize)

CallSmoothPredictions ==
    /\ \E predictions \in PredictionLists, windowSize \in WindowSizes :
            smoothCall' = SmoothCallOf(predictions, windowSize)
    /\ UNCHANGED <<adaptVars, serverVars, ldaVars, signalCall, featureCall, eegRequest,
                   preprocessCall, frontendVars>>

----------------------------------------------------------------------------
(* generateEEGSignal *)

\* The values generateEEGSignal takes when a parameter is absent or falsy.
DefaultSamplingRate == 250
DefaultDuration == 1000
DefaultNoiseLevel == Rat(1, 2)

\* The bell added to a target epoch: centre and width in ms, height in uV.
BellMu == 450
BellSigma == 75
BellPeakAmplitude == 5

\* An optional parameter: absent, or given with a value.
Omitted == [given |-> FALSE, value |-> 0]
Given(v) == [given |-> TRUE, value |-> v]
OmittedLevel == [given |-> FALSE, value |-> Zero]

\* params.x || d for a numeric parameter: d when x is absent or 0.
OrDefault(x, d) == IF x.given /\ x.value # 0 THEN x.value ELSE d

\* params.noiseLevel || 0.5
LevelOrDefault(x) == IF x.given /\ x.value # Zero THEN x.value ELSE DefaultNoiseLevel

\* The standard normal variates z0 the Box-Muller transform yields, sample by
\* sample: any reals; the model draws one of two sequences.
DrawPatterns == {"alternating", "constant"}

Z0(pattern, i) ==
    IF pattern = "constant" THEN RInt(2)
    ELSE IF i % 2 = 0 THEN RInt(1) ELSE RInt(0 - 1)

\* generateGaussianNoise(mean, stdDev) on the variate z0: z0 * stdDev + mean
GenerateGaussianNoise(mean, stdDev, z0) == RAdd(RMul(z0, stdDev), mean)

\* -Math.pow((timeMs - mu) / sigma, 2) / 2
BellExponent(timeMs) ==
    LET q == RSub(timeMs, RInt(BellMu))
        r == Rat(q.num, q.den * BellSigma)
        sq == RMul(r, r)
    IN  Rat(0 - sq.num, sq.den * 2)

\* No bell on the sample.
NoBell == [added |-> FALSE, peakAmplitude |-> 0, exponent |-> Zero]

\* generateEEGSignal(params) on the variates of `pattern`.  A sample of
\* rawSignal is baselineNoise, plus peakAmplitude * exp(exponent) where the
\* bell is added; the model keeps the two terms apart and exp unevaluated.
GenerateEEGSignal(params, pattern) ==
    LET samplingRate == OrDefault(params.samplingRate, DefaultSamplingRate)
        duration == OrDefault(params.duration, DefaultDuration)
        noiseLevel == LevelOrDefault(params.noiseLevel)
        type == params.type
        numSamples == (samplingRate * duration) \div 1000
        timestamps == [i \in 1..numSamples |-> Rat((i - 1) * 1000, samplingRate)]
        rawSignal == [i \in 1..numSamples |->
            LET baselineNoise == GenerateGaussianNoise(Zero, noiseLevel, Z0(pattern, i - 1))
                timeMs == timestamps[i]
            IN  [baselineNoise |-> baselineNoise,
                 gaussianComponent |->
                    IF /\ type = "target"
                       /\ ~RLess(timeMs, RInt(300))
                       /\ ~RLess(RInt(600), timeMs)
                    THEN [added |-> TRUE, peakAmplitude |-> BellPeakAmplitude,
                          exponent |-> BellExponent(timeMs)]
                    ELSE NoBell]]
    IN  [timestamps |-> timestamps, rawSignal |-> rawSignal]

\* The calls made on the generator: either class; the sampling rate, the
\* duration and the noise level absent, 0 or positive.
SignalTypes == {"target", "nontarget"}
SamplingRateInputs == {Omitted, Given(0), Given(20)}
DurationInputs == {Omitted, Given(0), Given(500)}
NoiseLevelInputs == {OmittedLevel, Given(Zero), Given(Rat(1, 4)), Given(RInt(1))}

SignalParams ==
    [type : SignalTypes, samplingRate : SamplingRateInputs,
     duration : DurationInputs, noiseLevel : NoiseLevelInputs]

SignalCallOf(params, pattern) ==
    [ called |-> TRUE, params |-> params, pattern |-> pattern,
      result |-> GenerateEEGSignal(params, pattern) ]

CallGenerateEEGSignal ==
    /\ \E params \in SignalParams, pattern \in DrawPatterns :
            signalCall' = SignalCallOf(params, pattern)
    /\ UNCHANGED <<adaptVars, serverVars, ldaVars, smoothCall, featureCall, eegRequest,
                   preprocessCall, frontendVars>>

NoSignalCall == [called |-> FALSE]

----------------------------------------------------------------------------
(* extractFeatures *)

\* The P300 window, in milliseconds after the stimulus.
P300_START_MS == 300
P300_END_MS == 600

RAbs(a) == [num |-> Abs(a.num), den |-> a.den]

\* findClosestIndex(array, target), 0-based: the first index of the least
\* |array[i] - target| (the loop replaces on a strictly smaller difference
\* only); 0 on an empty array, whose loop never runs.
RECURSIVE ClosestFrom(_, _, _, _, _)
ClosestFrom(array, target, i, minDiff, closestIdx) ==
    IF i >= Len(array) THEN closestIdx
    ELSE LET diff == RAbs(RSub(array[i + 1], target))
         IN  IF RLess(diff, minDiff)
             THEN ClosestFrom(array, target, i + 1, diff, i)
             ELSE ClosestFrom(array, target, i + 1, minDiff, closestIdx)

FindClosestIndex(array, target) ==
    IF Len(array) = 0 THEN 0
    ELSE ClosestFrom(array, target, 1, RAbs(RSub(array[1], target)), 0)

\* array.slice(start, end) for 0 <= start, 0 <= end
Slice(array, start, end) == SubSeq(array, start + 1, Min(end, Len(array)))

\* windowSignal.reduce((a, b) => a + b, 0)
RECURSIVE SumOf(_)
SumOf(s) == IF Len(s) = 0 THEN Zero ELSE RAdd(s[1], SumOf(Tail(s)))

\* Math.max(...windowSignal.map(s => Math.abs(s))) on a non-empty window
PeakOf(s) ==
    LET i == CHOOSE i \in 1..Len(s) : \A j \in 1..Len(s) : ~RLess(RAbs(s[i]), RAbs(s[j]))
    IN  RAbs(s[i])

\* windowSignal.findIndex(s => Math.abs(s) === peak), 0-based
FindPeakIndex(s, peak) ==
    (CHOOSE i \in 1..Len(s) :
        /\ RAbs(s[i]) = peak
        /\ \A j \in 1..(i - 1) : RAbs(s[j]) # peak) - 1

\* An extractor without the guard on the empty window: the mean of no
\* sample is 0/0.
ExtractNoEmptyCheck(filteredSignal, timestamps) ==
    LET startIdx == FindClosestIndex(timestamps, RInt(P300_START_MS))
        endIdx == FindClosestIndex(timestamps, RInt(P300_END_MS))
        windowSignal == Slice(filteredSignal, startIdx, endIdx + 1)
        windowTimestamps == Slice(timestamps, startIdx, endIdx + 1)
    IN  IF Len(windowSignal) = 0
        THEN [mean |-> NaN, peak |-> NaN, latency |-> Zero]
        ELSE LET peak == PeakOf(windowSignal)
                 peakIdx == FindPeakIndex(windowSignal, peak)
             IN  [mean |-> NDivInt(SumOf(windowSignal), Len(windowSignal)),
                  peak |-> peak,
                  latency |-> IF peakIdx < Len(windowTimestamps)
                              THEN windowTimestamps[peakIdx + 1] ELSE Zero]

\* extractFeatures(filteredSignal, timestamps): the samples from the one
\* nearest 300 ms to the one nearest 600 ms; their mean, their largest
\* absolute value and the timestamp of its first occurrence
\* (windowTimestamps[peakIdx] || 0); the zero vector on an empty window.
ExtractFeatures(filteredSignal, timestamps) ==
    LET startIdx == FindClosestIndex(timestamps, RInt(P300_START_MS))
        endIdx == FindClosestIndex(timestamps, RInt(P300_END_MS))
        windowSignal == Slice(filteredSignal, startIdx, endIdx + 1)
        windowTimestamps == Slice(timestamps, startIdx, endIdx + 1)
    IN  IF Len(windowSignal) = 0
        THEN [mean |-> Zero, peak |-> Zero, latency |-> Zero]
        ELSE LET mean == NDivInt(SumOf(windowSignal), Len(windowSignal))
                 peak == PeakOf(windowSignal)
                 peakIdx == FindPeakIndex(windowSignal, peak)
                 latency == IF peakIdx < Len(windowTimestamps)
                            THEN windowTimestamps[peakIdx + 1] ELSE Zero
             IN  [mean |-> mean, peak |-> peak, latency |-> latency]

\* The calls made on the extractor: up to MaxSamples samples and up to
\* MaxSamples timestamps, in any order and of either length.
MaxSamples == 3

\* The first n samples of a signal that alternates and of one that grows.
Alternating(n) == [i \in 1..n |-> IF i % 2 = 1 THEN RInt(1) ELSE RInt(0 - 2)]
Growing(n) == [i \in 1..n |-> RInt(i)]

SignalInputs == UNION { {Alternating(n), Growing(n)} : n \in 0..MaxSamples }

TimestampInputs ==
    UNION { [1..n -> {RInt(0), RInt(300), RInt(600)}] : n \in 0..MaxSamples }

FeatureCallOf(filteredSignal, timestamps) ==
    [ called |-> TRUE, filteredSignal |-> filteredSignal, timestamps |-> timestamps,
      result |-> ExtractFeatures(filteredSignal, timestamps) ]

CallExtractFeatures ==
    /\ \E filteredSignal \in SignalInputs, timestamps \in TimestampInputs :
            featureCall' = FeatureCallOf(filteredSignal, timestamps)
    /\ UNCHANGED <<adaptVars, serverVars, ldaVars, smoothCall, signalCall, eegRequest,
                   preprocessCall, frontendVars>>

NoFeatureCall == [called |-> FALSE]

----------------------------------------------------------------------------
(* preprocessSignal *)

\* for j from max(0, i - floor(5/2)) below min(length, i + ceil(5/2)):
\* the mean of the samples at most two places from place i (from 1).
MovingAverageAt(filtered, i) ==
    LET lo == Max(1, i - 2)
        hi == Min(Len(filtered), i + 2)
    IN  NDivInt(SumOf(SubSeq(filtered, lo, hi)), hi - lo + 1)

\* One pass of the moving average of window 5.
MovingAveragePass(filtered) == [i \in 1..Len(filtered) |-> MovingAverageAt(filtered, i)]

RECURSIVE MovingAverage(_, _)
MovingAverage(filtered, order) ==
    IF order <= 0 THEN filtered
    ELSE MovingAverage(MovingAveragePass(filtered), order - 1)

\* for i from 1: filtered[i] = filtered[i] - filtered[i - 1] * 0.95, in place:
\* `done` holds the samples already rewritten.
RECURSIVE RemoveDrift(_, _)
RemoveDrift(done, rest) ==
    IF rest = <<>> THEN done
    ELSE IF done = <<>> THEN RemoveDrift(<<Head(rest)>>, Tail(rest))
    ELSE RemoveDrift(
            Append(done, NSub(Head(rest), NMul(done[Len(done)], Rat(19, 20)))),
            Tail(rest))

\* applyBandpassFilter(signal, order)
ApplyBandpassFilter(signal, order) == RemoveDrift(<<>>, MovingAverage(signal, order))

\* for i from floor(periodSamples):
\* filtered[i] = filtered[i] * 0.8 + filtered[i - floor(periodSamples)] * 0.2,
\* in place: `done` holds the samples already rewritten.
RECURSIVE AttenuatePeriod(_, _, _)
AttenuatePeriod(done, rest, period) ==
    IF rest = <<>> THEN done
    ELSE IF Len(done) < period
    THEN AttenuatePeriod(Append(done, Head(rest)), Tail(rest), period)
    ELSE LET delayed == IF period = 0 THEN Head(rest)
                        ELSE done[Len(done) - period + 1]
         IN  AttenuatePeriod(
                Append(done, NAdd(NMul(Head(rest), Rat(4, 5)), NMul(delayed, Rat(1, 5)))),
                Tail(rest), period)

\* The power line frequency the notch removes, in Hz.
NotchFrequency == 50

\* applyNotchFilter(signal, samplingRate)
ApplyNotchFilter(signal, samplingRate) ==
    AttenuatePeriod(<<>>, signal, samplingRate \div NotchFrequency)

\* A preprocessing that returns only the samples the notch has rewritten.
PreprocessSettledOnly(rawSignal, samplingRate) ==
    LET notched == ApplyNotchFilter(ApplyBandpassFilter(rawSignal, 2), samplingRate)
        settled == SubSeq(notched, Min(Len(notched), samplingRate \div NotchFrequency) + 1,
                          Len(notched))
        mean == NDivInt(SumOf(settled), Len(settled))
    IN  [rawSignal |-> rawSignal,
         filteredSignal |-> [i \in 1..Len(settled) |-> NSub(settled[i], mean)]]

\* preprocessSignal(rawSignal, samplingRate): band pass of order 2, notch,
\* then the mean taken off every sample (0/0 on no sample, and no sample to
\* take it off).
PreprocessSignal(rawSignal, samplingRate) ==
    LET bandpassed == ApplyBandpassFilter(rawSignal, 2)
        notched == ApplyNotchFilter(bandpassed, samplingRate)
        mean == NDivInt(SumOf(notched), Len(notched))
        filteredSignal == [i \in 1..Len(notched) |-> NSub(notched[i], mean)]
    IN  [rawSignal |-> rawSignal, filteredSignal |-> filteredSignal]

\* The calls made on preprocessSignal: signals of up to MaxSamples samples and
\* sampling rates whose 50 Hz period is 0, 1, 2 and 5 samples.
RawSignalInputs ==
    UNION { [1..n -> {RInt(0 - 2), RInt(1), RInt(3)}] : n \in 0..MaxSamples }

PreprocessRates == {30, 50, 100, DefaultSamplingRate}

PreprocessCallOf(rawSignal, samplingRate) ==
    [ called |-> TRUE, rawSignal |-> rawSignal, samplingRate |-> samplingRate,
      result |-> PreprocessSignal(rawSignal, samplingRate) ]

NoPreprocessCall == [called |-> FALSE]

CallPreprocessSignal ==
    /\ \E rawSignal \in RawSignalInputs, samplingRate \in PreprocessRates :
            preprocessCall' = PreprocessCallOf(rawSignal, samplingRate)
    /\ UNCHANGED <<adaptVars, serverVars, ldaVars, smoothCall, signalCall, featureCall,
                   eegRequest, frontendVars>>

----------------------------------------------------------------------------
(* The /api/eeg routes *)

\* A field of a request body: an array of numbers, or something else.
ArrayField(elements) == [isArray |-> TRUE, elements |-> elements]
NotAnArray == [isArray |-> FALSE, elements |-> <<>>]

\* Timestamps every `step` ms from 0.
EveryMs(step, n) == [i \in 1..n |-> RInt(step * (i - 1))]

TimestampSteps == {150, 300, 600}

RouteSignals == {ArrayField(s) : s \in SignalInputs} \cup {NotAnArray}

RouteTimestamps ==
    {ArrayField(EveryMs(step, n)) : step \in TimestampSteps, n \in 0..MaxSamples}
        \cup {NotAnArray}

\* No response body.
NoBody == [kind |-> "error"]

\* router.post('/extract-features'): 400 unless filteredSignal and
\* timestamps are both arrays, else extractFeatures on them and its result.
\* (The catch answering 500 is not reached: extractFeatures throws on no
\* array of numbers.)
PostExtractFeatures ==
    /\ \E filteredSignal \in RouteSignals, timestamps \in RouteTimestamps :
          eegRequest' =
              [route |-> "extract-features",
               signal |-> filteredSignal, timestamps |-> timestamps] @@
              IF ~filteredSignal.isArray \/ ~timestamps.isArray
              THEN [status |-> 400, coreCalled |-> FALSE, response |-> NoBody]
              ELSE [status |-> 200, coreCalled |-> TRUE,
                    response |-> [kind |-> "features",
                                  features |-> ExtractFeatures(filteredSignal.elements,
                                                               timestamps.elements)]]
    /\ UNCHANGED <<adaptVars, serverVars, ldaVars, smoothCall, signalCall, featureCall,
                   preprocessCall, frontendVars>>

\* router.post('/preprocess'): 400 unless rawSignal and timestamps are both
\* arrays, else preprocessSignal(rawSignal) at the default sampling rate and
\* its result.
PostPreprocess ==
    /\ \E rawSignal \in RouteSignals, timestamps \in RouteTimestamps :
          eegRequest' =
              [route |-> "preprocess",
               signal |-> rawSignal, timestamps |-> timestamps] @@
              IF ~rawSignal.isArray \/ ~timestamps.isArray
              THEN [status |-> 400, coreCalled |-> FALSE, response |-> NoBody]
              ELSE [status |-> 200, coreCalled |-> TRUE,
                    response |-> [kind |-> "preprocessed",
                                  preprocessed |-> PreprocessSignal(rawSignal.elements,
                                                                    DefaultSamplingRate)]]
    /\ UNCHANGED <<adaptVars, serverVars, ldaVars, smoothCall, signalCall, featureCall,
                   preprocessCall, frontendVars>>

\* A field of the /classify body: a number, or something else.
NumberField(x) == [isNumber |-> TRUE, value |-> x]
NotANumber == [isNumber |-> FALSE, value |-> Zero]

\* The feature vectors posted to /classify: a grid of means, peaks and
\* latencies, and the vectors extractFeatures gives on evenly spaced epochs.
ClassifyMeans == {RInt(0 - 3), RInt(0 - 1), Zero, Rat(1, 2), RInt(2)}
ClassifyPeaks == {Zero, RInt(1), RInt(3), RInt(5)}
ClassifyLatencies == {Zero, RInt(2), RInt(150), RInt(300), RInt(450), RInt(600)}

ExtractedVectors ==
    {ExtractFeatures(s, EveryMs(step, Len(s))) : s \in SignalInputs, step \in TimestampSteps}

ClassifyBodies ==
    {[mean |-> NumberField(f.mean), peak |-> NumberField(f.peak),
      latency |-> NumberField(f.latency)] :
        f \in [mean : ClassifyMeans, peak : ClassifyPeaks, latency : ClassifyLatencies]
              \cup ExtractedVectors}
    \cup {[mean |-> NotANumber, peak |-> NumberField(Zero), latency |-> NumberField(Zero)],
          [mean |-> NumberField(Zero), peak |-> NotANumber, latency |-> NumberField(Zero)],
          [mean |-> NumberField(Zero), peak |-> NumberField(Zero), latency |-> NotANumber]}

\* router.post('/classify'): 400 unless mean, peak and latency are numbers,
\* else predict of the module's DefaultLDAClassifier on them and its result.
\* No route trains that classifier or sets its threshold.
PostClassify ==
    /\ \E body \in ClassifyBodies :
          eegRequest' =
              [route |-> "classify", body |-> body] @@
              IF ~body.mean.isNumber \/ ~body.peak.isNumber \/ ~body.latency.isNumber
              THEN [status |-> 400, coreCalled |-> FALSE, response |-> NoBody]
              ELSE [status |-> 200, coreCalled |-> TRUE,
                    response |-> [kind |-> "classification",
                                  result |-> Predict(DefaultClassifier,
                                                [mean |-> body.mean.value,
                                                 peak |-> body.peak.value,
                                                 latency |-> body.latency.value])]]
    /\ UNCHANGED <<adaptVars, serverVars, ldaVars, smoothCall, signalCall, featureCall,
                   preprocessCall, frontendVars>>

NoEegRequest == [route |-> "none"]

PipelineInit ==
    /\ smoothCall = NoSmoothCall
    /\ signalCall = NoSignalCall
    /\ featureCall = NoFeatureCall
    /\ eegRequest = NoEegRequest
    /\ preprocessCall = NoPreprocessCall

----------------------------------------------------------------------------
(* The client: App, GameBoard and useEEGProcessing *)

MaxRuns == 3            \* calls of runTrial the timer makes

NoSession == [id |-> 0, totalTrials |-> 0]

\* The session POST /api/sessions answers with: no trial yet.
CreatedSession == [id |-> 1, totalTrials |-> 0]

\* App's state after construction, with its calls of handleTrialComplete
\* that await their POST (completing).
NewApp ==
    [appState         |-> "init",
     session          |-> NoSession,
     recentAccuracies |-> <<>>,
     completing       |-> <<>>]

\* GameBoard and its useEEGProcessing hook: no trial counted, nothing being
\* processed, no timer, no call of runTrial.
NewBoard ==
    [trialCount   |-> 0,
     isProcessing |-> FALSE,
     timer        |-> FALSE,
     runs         |-> <<>>]

FrontendInit ==
    /\ app = NewApp
    /\ board = NewBoard
    /\ posts = <<>>

IsActive(a) == a.appState = "playing"

\* The auto-run effect: it clears the timer it set, and sets one unless the
\* board is inactive or processing.
AutoRun(isActive, isProcessing) == isActive /\ ~isProcessing

\* apiClient.recordTrial: the POST /sessions/:sessionId/trials it sends.
RecordTrial(sessionId, trialNumber, targetType, prediction, origin, run) ==
    [sessionId   |-> sessionId,
     trialNumber |-> trialNumber,
     targetType  |-> targetType,
     prediction  |-> prediction,
     origin      |-> origin,
     run         |-> run]

\* prev.slice(-n)
SliceLast(s, n) == SubSeq(s, Max(1, Len(s) - n + 1), Len(s))

\* handleSessionCreated, the session created: the game starts and the
\* mounted board sets its first timer.
HandleSessionCreated ==
    /\ app.appState = "init"
    /\ app' = [app EXCEPT !.session = CreatedSession,
                          !.recentAccuracies = <<>>,
                          !.appState = "playing"]
    /\ board' = [NewBoard EXCEPT !.timer = AutoRun(TRUE, FALSE)]
    /\ UNCHANGED <<posts, adaptVars, serverVars, ldaVars, pipelineVars>>

\* togglePause: the effect clears the timer on a pause and sets one on a
\* resume; the calls of runTrial under way go on.
TogglePause ==
    /\ app.appState \in {"playing", "paused"}
    /\ app' = [app EXCEPT !.appState = IF app.appState = "playing" THEN "paused" ELSE "playing"]
    /\ board' = [board EXCEPT !.timer = AutoRun(IsActive(app'), board.isProcessing)]
    /\ UNCHANGED <<posts, adaptVars, serverVars, ldaVars, pipelineVars>>

\* The timer fires and runTrial starts, up to its await of the flash. The
\* timer was set when the board was active and not processing, with the
\* values of this render. A timer set during a flash is due after the flash
\* ends (both last 2000 ms), so it does not fire during one.
RunTrial ==
    /\ board.timer
    /\ Len(board.runs) < MaxRuns
    /\ \A i \in DOMAIN board.runs : board.runs[i].pc # "flash"
    /\ board' = [board EXCEPT
           !.timer = FALSE,
           !.runs = Append(@, [pc         |-> "flash",
                               sessionId  |-> app.session.id,
                               trialCount |-> board.trialCount,
                               session    |-> app.session,
                               prediction |-> "none"])]
    /\ UNCHANGED <<app, posts, adaptVars, serverVars, ldaVars, pipelineVars>>

\* The flash is over and processSignal starts: isProcessing is set, and the
\* effect clears the timer.
FlashEnds(i) ==
    /\ board.runs[i].pc = "flash"
    /\ board' = [board EXCEPT
           !.runs[i].pc = "processSignal",
           !.isProcessing = TRUE,
           !.timer = AutoRun(IsActive(app), TRUE)]
    /\ UNCHANGED <<app, posts, adaptVars, serverVars, ldaVars, pipelineVars>>

\* processSignal returns a classification: isProcessing is reset, the effect
\* sets a timer again, and runTrial sends its POST for trial trialCount + 1.
ProcessSignalReturns(i, p) ==
    /\ board.runs[i].pc = "processSignal"
    /\ board' = [board EXCEPT
           !.runs[i].pc = "recordTrial",
           !.runs[i].prediction = p,
           !.isProcessing = FALSE,
           !.timer = AutoRun(IsActive(app), FALSE)]
    /\ posts' = Append(posts, RecordTrial(board.runs[i].sessionId,
                                          board.runs[i].trialCount + 1,
                                          "target", p, "runTrial", i))
    /\ UNCHANGED <<app, adaptVars, serverVars, ldaVars, pipelineVars>>

\* processSignal throws (a call of /api/eeg failed): runTrial's catch.
ProcessSignalThrows(i) ==
    /\ board.runs[i].pc = "processSignal"
    /\ board' = [board EXCEPT
           !.runs[i].pc = "error",
           !.isProcessing = FALSE,
           !.timer = AutoRun(IsActive(app), FALSE)]
    /\ UNCHANGED <<app, posts, adaptVars, serverVars, ldaVars, pipelineVars>>

\* runTrial's POST is answered 201: onTrialComplete, that is
\* handleTrialComplete up to its await, sends its own POST for trial
\* session.totalTrials + 1; then setTrialCount, and the effect sets the timer
\* for the new runTrial.
RunTrialRecorded(i) ==
    /\ board.runs[i].pc = "recordTrial"
    /\ LET run == board.runs[i]
           result == [targetType |-> "target", prediction |-> run.prediction, run |-> i]
       IN  IF run.session = NoSession
           THEN UNCHANGED <<app, posts>>
           ELSE /\ app' = [app EXCEPT !.completing =
                               Append(@, [pc |-> "recordTrial", result |-> result])]
                /\ posts' = Append(posts, RecordTrial(run.session.id,
                                                      run.session.totalTrials + 1,
                                                      result.targetType, result.prediction,
                                                      "handleTrialComplete", i))
    /\ board' = [board EXCEPT
           !.runs[i].pc = "done",
           !.trialCount = @ + 1,
           !.timer = AutoRun(IsActive(app), board.isProcessing)]
    /\ UNCHANGED <<adaptVars, serverVars, ldaVars, pipelineVars>>

\* runTrial's POST is rejected: runTrial's catch, the trial is not counted.
RunTrialRejected(i) ==
    /\ board.runs[i].pc = "recordTrial"
    /\ board' = [board EXCEPT !.runs[i].pc = "error"]
    /\ UNCHANGED <<app, posts, adaptVars, serverVars, ldaVars, pipelineVars>>

\* handleTrialComplete's POST is answered 201, by {trial, calibration,
\* feedback}: the session is merged with it (totalTrials stays), the
\* accuracy trend gets its entry, and the new handleTrialComplete makes a new
\* runTrial, for which the effect sets the timer.
HandleTrialCompleteRecorded(h) ==
    /\ app.completing[h].pc = "recordTrial"
    /\ LET result == app.completing[h].result
           isCorrect == result.prediction = result.targetType
       IN  app' = [app EXCEPT
               !.completing[h].pc = "done",
               !.recentAccuracies = Append(SliceLast(@, 9), IF isCorrect THEN 1 ELSE 0)]
    /\ board' = [board EXCEPT !.timer = AutoRun(IsActive(app), board.isProcessing)]
    /\ UNCHANGED <<posts, adaptVars, serverVars, ldaVars, pipelineVars>>

\* handleTrialComplete's POST is rejected: its catch logs the error.
HandleTrialCompleteRejected(h) ==
    /\ app.completing[h].pc = "recordTrial"
    /\ app' = [app EXCEPT !.completing[h].pc = "error"]
    /\ UNCHANGED <<board, posts, adaptVars, serverVars, ldaVars, pipelineVars>>

----------------------------------------------------------------------------
(* Specifications *)

\* The server, one request at a time: a request is received only when no
\* other handler is between its awaits.
Init ==
    /\ ServerInit
    /\ adaptCall = FirstAdaptCall
    /\ classifier = DefaultClassifier
    /\ lastCall = NoCall
    /\ PipelineInit
    /\ FrontendInit

Next ==
    \/ CreateSession
    \/ \E r \in Slots : Receive(r, 1, SessionIds, ValidBodies \cup InvalidBodies)
    \/ \E r \in Slots : HandlerStep(r)
    \/ \E r \in Slots : HandlerFails(r)

Spec == Init /\ [][Next]_vars

\* The server with up to two handlers between their awaits, on valid requests
\* for sessions that can exist and a store that rejects no call.
NextConcurrent ==
    \/ CreateSession
    \/ \E r \in Slots : Receive(r, 2, 1..MaxSessions, ValidBodies)
    \/ \E r \in Slots : HandlerStep(r)

SpecConcurrent == Init /\ [][NextConcurrent]_vars

\* The server, one request at a time, on valid requests for sessions that can
\* exist, with two response times so that a correction is seen, and a store
\* that rejects no call.
RerecordBodies ==
    ValidBodies \cup {[b EXCEPT !.responseTime = 1500] : b \in ValidBodies}

NextRerecord ==
    \/ CreateSession
    \/ \E r \in Slots : Receive(r, 1, 1..MaxSessions, RerecordBodies)
    \/ \E r \in Slots : HandlerStep(r)

SpecRerecord == Init /\ [][NextRerecord]_vars

\* The two session routes, one request at a time, for sessions that exist
\* and sessions that do not, on a store that rejects no call but the write
\* of a Trial for a session that is no Session.
NextRoutes ==
    \/ CreateSession
    \/ \E r \in Slots : Receive(r, 1, SessionIds, ValidBodies \cup InvalidBodies)
    \/ \E r \in Slots : ReceiveGet(r, SessionIds)
    \/ \E r \in Slots : HandlerStep(r)
    \/ \E r \in Slots : GetRoute(r)

SpecRoutes == Init /\ [][NextRoutes]_vars

\* extractFeatures called on any signal and any timestamps.
SpecFeatures == Init /\ [][CallExtractFeatures]_vars

\* generateEEGSignal called on any parameters.
SpecSignal == Init /\ [][CallGenerateEEGSignal]_vars

\* The /api/eeg routes that take a signal, on any request body.
NextEegRoutes == PostExtractFeatures \/ PostPreprocess

SpecEegRoutes == Init /\ [][NextEegRoutes]_vars

\* preprocessSignal called on any signal and sampling rate.
SpecPreprocess == Init /\ [][CallPreprocessSignal]_vars

\* POST /api/eeg/classify on any body.
SpecClassify == Init /\ [][PostClassify]_vars

\* One session of the game in the browser: the timer, the calls of runTrial
\* and handleTrialComplete it leads to, and the pause button.
NextFrontend ==
    \/ HandleSessionCreated
    \/ TogglePause
    \/ RunTrial
    \/ \E i \in DOMAIN board.runs :
           \/ FlashEnds(i)
           \/ \E p \in Predictions : ProcessSignalReturns(i, p)
           \/ ProcessSignalThrows(i)
           \/ RunTrialRecorded(i)
           \/ RunTrialRejected(i)
    \/ \E h \in DOMAIN app.completing :
           \/ HandleTrialCompleteRecorded(h)
           \/ HandleTrialCompleteRejected(h)

SpecFrontend == Init /\ [][NextFrontend]_vars

\* adaptDifficulty called on any inputs, after the call a new session's
\* first trial of accuracy 0.5 makes.
InitAdapt ==
    /\ ServerInit
    /\ adaptCall = FirstAdaptCall
    /\ classifier = DefaultClassifier
    /\ lastCall = NoCall
    /\ PipelineInit
    /\ FrontendInit

SpecAdapt == InitAdapt /\ [][CallAdaptDifficulty]_vars

\* A run of trials whose recent accuracy stays in one band, from any
\* calibration within the bounds; trials keep coming.
InitConverge ==
    /\ ServerInit
    /\ \E acc \in RegimeAccuracies, fs \in InBoundsFlashSpeeds, oc \in InBoundsObjectCounts :
           adaptCall = AdaptCallOf(acc, fs, oc)
    /\ classifier = DefaultClassifier
    /\ lastCall = NoCall
    /\ PipelineInit
    /\ FrontendInit

SpecConverge == InitConverge /\ [][AdaptNextTrial]_vars /\ WF_vars(AdaptNextTrial)

\* A classifier, new or default, and the calls on it.
InitLda ==
    /\ ServerInit
    /\ adaptCall = FirstAdaptCall
    /\ LdaInit
    /\ PipelineInit
    /\ FrontendInit

NextLda == TrainCall \/ PredictCall \/ SetThresholdCall

SpecLda == InitLda /\ [][NextLda]_vars

\* smoothPredictions called on any history and window size.
SpecSmooth == Init /\ [][CallSmoothPredictions]_vars

----------------------------------------------------------------------------
(* Properties of the adaptive loop and the session aggregates *)

SerialCalibration(first, second) ==
    LET rows1 == UpsertTrial(<<>>, first)
        acc1 == RecentAccuracy(rows1)
        cal1 == AdaptDifficulty(acc1, NewCalibrationRow.flashSpeed, NewCalibrationRow.objectCount)
        rows2 == UpsertTrial(rows1, second)
        acc2 == RecentAccuracy(rows2)
        cal2 == AdaptDifficulty(acc2, cal1.newFlashSpeed, cal1.newObjectCount)
    IN  [NewCalibrationRow EXCEPT
            !.flashSpeed     = cal2.newFlashSpeed,
            !.objectCount    = cal2.newObjectCount,
            !.recentAccuracy = acc2]

\* C2: when the only two requests of a session, for two different trials,
\* overlapped and both answered 201, the Session's totalTrials and accuracy
\* account for every Trial row and the CalibrationState is the one of
\* handling them one after the other in one of the two orders.
C2_NoLostUpdate ==
    (/\ nRequests = 2
     /\ \A r \in Slots : requests[r].pc = "done" /\ requests[r].status = 201
     /\ requests[1].sessionId = requests[2].sessionId
     /\ requests[1].body.trialNumber # requests[2].body.trialNumber)
    => LET s == requests[1].sessionId
       IN  /\ sessions[s].totalTrials = Len(trials[s])
           /\ sessions[s].accuracy = SessionTotals(trials[s]).accuracy
           /\ calibrations[s] \in {SerialCalibration(requests[1].body, requests[2].body),
                                   SerialCalibration(requests[2].body, requests[1].body)}

\* C3: a session without Trial rows has totalTrials 0 and accuracy 0, and
\* once recordTrial has succeeded in a request that overlaps no other, the
\* Session's totalTrials is the number of its Trial rows and its accuracy the
\* share of them flagged correct.
C3_TotalsMatchTrials ==
    /\ \A s \in DOMAIN sessions :
        trials[s] = <<>> =>
            sessions[s].totalTrials = 0 /\ sessions[s].accuracy = RInt(0)
    /\ \A r \in Slots :
        (\/ requests[r].pc \in {"getSession", "updateCalibration"}
         \/ requests[r].pc = "done" /\ requests[r].status = 201)
        /\ requests[r].sessionId \in DOMAIN sessions
        => LET s == requests[r].sessionId
           IN  /\ sessions[s].totalTrials = Len(trials[s])
               /\ Len(trials[s]) > 0
               /\ sessions[s].accuracy = Rat(CorrectCount(trials[s]), Len(trials[s]))

\* C3 happens: a request answered 201 on a session of two Trial rows, one of
\* them correct.
C3_Witness ==
    \E r \in Slots :
        /\ requests[r].pc = "done" /\ requests[r].status = 201
        /\ requests[r].sessionId \in DOMAIN sessions
        /\ Len(trials[requests[r].sessionId]) = 2
        /\ sessions[requests[r].sessionId].accuracy = Rat(1, 2)

\* C4: a request answered with an error has kept no Trial row and has left
\* the session's totals and its CalibrationState as they were when the
\* request arrived.
C4_FailedTrialNotCounted ==
    \A r \in Slots :
        requests[r].pc = "done" /\ requests[r].status = 500 =>
            LET now == SnapshotOf(requests[r].sessionId)
            IN  /\ now.trials = requests[r].pre.trials
                /\ now.session = requests[r].pre.session
                /\ now.calibration = requests[r].pre.calibration

----------------------------------------------------------------------------
(* Properties of LDAClassifier *)

\* A train call that passes both of train's early returns.
Accepted(call) ==
    /\ call.op = "train"
    /\ call.nFeatures > 0
    /\ call.nLabels = call.nFeatures
    /\ "YES" \in call.labelSet
    /\ call.labelSet # {"YES"}

\* C5: no call makes a trained classifier untrained, and an untrained one
\* becomes trained only by a train call that is accepted.
C5_TrainedOneWay ==
    [][/\ classifier.isTrained => classifier'.isTrained
       /\ ~classifier.isTrained /\ classifier'.isTrained => Accepted(lastCall')]_vars

\* C5 happens: a trained classifier has gone through a rejected train call
\* (no YES example) and is trained still.
C5_Witness ==
    /\ classifier.isTrained
    /\ lastCall.op = "train"
    /\ lastCall.nFeatures > 0
    /\ lastCall.nLabels = lastCall.nFeatures
    /\ "YES" \notin lastCall.labelSet

\* C6: predict on an untrained classifier returns NO with confidence 0.5,
\* whatever the features and the threshold.
C6_UntrainedFallback ==
    lastCall.op = "predict" /\ ~classifier.isTrained =>
        lastCall.result = [prediction |-> "NO", confidence |-> 500000]

\* C6 happens: predict on an untrained classifier whose threshold setThreshold
\* has lowered to 0, on a feature vector that is not zero.
C6_Witness ==
    /\ lastCall.op = "predict"
    /\ ~classifier.isTrained
    /\ classifier.threshold = 0
    /\ lastCall.features = TrainVector(2)

\* C7: a train call on data that is empty, or whose labels are not aligned
\* with its features, or that has no example labelled YES, or none labelled
\* NO, leaves weights, bias, threshold and the trained flag as they were.
C7_RejectedTrainChangesNothing ==
    [][/\ lastCall'.op = "train"
       /\ \/ lastCall'.nFeatures = 0
          \/ lastCall'.nLabels # lastCall'.nFeatures
          \/ "YES" \notin lastCall'.labelSet
          \/ "NO" \notin lastCall'.labelSet
       => classifier' = classifier]_vars

\* The score w.x + b of the last predict call.
LastScore ==
    NAdd(DotProduct(classifier.weights, FeatureArray(lastCall.features)), classifier.bias)

----------------------------------------------------------------------------
(* Properties of adaptDifficulty *)

C11_MiddleBandUnchanged ==
    (/\ adaptCall.recentAccuracy.num * 10 >= 4 * adaptCall.recentAccuracy.den
     /\ adaptCall.recentAccuracy.num * 10 <= 7 * adaptCall.recentAccuracy.den)
    => /\ adaptCall.result.newFlashSpeed = adaptCall.currentFlashSpeed
       /\ adaptCall.result.newObjectCount = adaptCall.currentObjectCount
       /\ adaptCall.result.notification = "You're doing great! Keep going!"

\* C11 happens: adaptDifficulty on the boundary 0.70 with flash speed 1.2 and
\* 3 objects has returned 1.2 and 3.
C11_Witness ==
    /\ adaptCall.recentAccuracy = Rat(7, 10)
    /\ adaptCall.currentFlashSpeed = 1200000
    /\ adaptCall.currentObjectCount = 3
    /\ adaptCall.result.newFlashSpeed = 1200000
    /\ adaptCall.result.newObjectCount = 3

\* C12: after a single adaptDifficulty call with recentAccuracy in [0, 1],
\* whatever flash speed and object count it was given, newFlashSpeed is in
\* [0.6, 1.5] and newObjectCount in [3, 4].
C12_SingleCallInBounds ==
    /\ adaptCall.result.newFlashSpeed >= MinFlashSpeed
    /\ adaptCall.result.newFlashSpeed <= MaxFlashSpeed
    /\ adaptCall.result.newObjectCount >= MinObjectCount
    /\ adaptCall.result.newObjectCount <= MaxObjectCount

----------------------------------------------------------------------------
(* Properties of the smoother *)

\* The sum of the confidences of the newest k predictions, the newest
\* weighted k, the one before it k - 1, down to 1.
RECURSIVE RecencyWeightedSum(_, _)
RecencyWeightedSum(predictions, k) ==
    IF k = 0 THEN Zero
    ELSE RAdd(RMul(RInt(k), predictions[Len(predictions)].confidence),
              RecencyWeightedSum(SubSeq(predictions, 1, Len(predictions) - 1), k - 1))

\* The history of the documented example and the single prediction.
ExampleHistory ==
    << PredictionEntry("YES", Rat(17, 20)), PredictionEntry("YES", Rat(18, 25)),
       PredictionEntry("NO", Rat(11, 20)) >>

SingleHistory == << PredictionEntry("YES", Rat(9, 10)) >>

C14_MajorityDecision ==
    LET p == smoothCall.predictions
        k == Max(0, Min(smoothCall.windowSize, Len(p)))
        yes == Cardinality({i \in (Len(p) - k + 1)..Len(p) : p[i].prediction = "YES"})
    IN  Len(p) > 0 =>
            /\ smoothCall.result.decision \in {"YES", "NO"}
            /\ smoothCall.result.decision = "YES" <=> 2 * yes >= k

\* A window of two with one YES and one NO has been decided YES.
C14_Witness ==
    /\ Len(smoothCall.predictions) = 3
    /\ smoothCall.windowSize = 2
    /\ smoothCall.predictions[2].prediction = "YES"
    /\ smoothCall.predictions[3].prediction = "NO"
    /\ smoothCall.result.decision = "YES"

----------------------------------------------------------------------------
(* Properties of the trial upsert and of the routes' error answers *)

\* The rows of a session that carry a trial number.
RowsNumbered(rows, n) == {i \in 1..Len(rows) : rows[i].trialNumber = n}

\* C15: recording a trial number already used in the session keeps exactly
\* one Trial row for that number and the number of rows, replaces the row's
\* response time and correctness by those of the new recording, and appends
\* one Prediction to it; the other rows stay as they are.  Once the request
\* is answered 201, the session's totalTrials is the number of rows the
\* session had before it.
C15_UpsertByTrialNumber ==
    /\ [][\A r \in Slots :
        LET s == requests[r].sessionId
            body == requests[r].body
        IN  (/\ requests[r].pc = "upsert"
             /\ requests'[r].pc = "rtGetSession"
             /\ RowsNumbered(trials[s], body.trialNumber) # {})
            => /\ Len(trials'[s]) = Len(trials[s])
               /\ Cardinality(RowsNumbered(trials'[s], body.trialNumber)) = 1
               /\ \A i \in 1..Len(trials[s]) :
                     IF trials[s][i].trialNumber = body.trialNumber
                     THEN /\ trials'[s][i].responseTime = body.responseTime
                          /\ trials'[s][i].accuracy =
                                ((body.targetType = "target" /\ body.prediction = "YES")
                                 \/ (body.targetType = "nontarget" /\ body.prediction = "NO"))
                          /\ Len(trials'[s][i].predictions) = Len(trials[s][i].predictions) + 1
                          /\ SubSeq(trials'[s][i].predictions, 1, Len(trials[s][i].predictions))
                                = trials[s][i].predictions
                          /\ trials'[s][i].predictions[Len(trials'[s][i].predictions)]
                                = [prediction |-> body.prediction, confidence |-> body.confidence]
                     ELSE trials'[s][i] = trials[s][i]]_vars
    /\ [](\A r \in Slots :
            LET req == requests[r]
            IN  (/\ req.pc = "done"
                 /\ req.status = 201
                 /\ RowsNumbered(req.pre.trials, req.body.trialNumber) # {})
                => sessions[req.sessionId].totalTrials = Len(req.pre.trials))

\* A trial recorded wrong in 1000 ms has been recorded again, right and in
\* 1500 ms: one row, two predictions, the new response time and correctness.
C15_Witness ==
    \E r \in Slots :
        LET req == requests[r]
        IN  /\ req.pc = "done"
            /\ req.status = 201
            /\ req.body.responseTime = 1500
            /\ req.pre.trials # <<>>
            /\ req.pre.trials[1].trialNumber = req.body.trialNumber
            /\ req.pre.trials[1].responseTime = 1000
            /\ ~req.pre.trials[1].accuracy
            /\ Len(trials[req.sessionId]) = 1
            /\ trials[req.sessionId][1].responseTime = 1500
            /\ trials[req.sessionId][1].accuracy
            /\ Len(trials[req.sessionId][1].predictions) = 2
            /\ sessions[req.sessionId].totalTrials = 1

\* C16: a request that names a session which does not exist is answered 404,
\* on GET /api/sessions/:sessionId and on POST /api/sessions/:sessionId/trials
\* alike (the store rejecting no other call, the body being complete).
C16_UnknownSessionIs404 ==
    \A r \in Slots :
        LET req == requests[r]
        IN  (/\ req.pc = "done"
             /\ req.status # 400
             /\ ~req.pre.exists
             /\ req.sessionId \notin DOMAIN sessions)
            => req.status = 404

----------------------------------------------------------------------------
(* Properties of the feature extractor *)

\* The first index (from 1) of a timestamp as near to target as any.
NearestSample(timestamps, target) ==
    CHOOSE i \in 1..Len(timestamps) :
        /\ \A j \in 1..Len(timestamps) :
              ~RLess(RAbs(RSub(timestamps[j], target)), RAbs(RSub(timestamps[i], target)))
        /\ \A j \in 1..(i - 1) :
              RLess(RAbs(RSub(timestamps[i], target)), RAbs(RSub(timestamps[j], target)))

\* C20: when the slice of the signal from the sample nearest 300 ms to the
\* sample nearest 600 ms is empty (no signal, or no sample at the start
\* index, or the start index after the end index), extractFeatures returns
\* {mean: 0, peak: 0, latency: 0}.
C20_EmptyWindowZeroVector ==
    featureCall.called =>
        LET signal == featureCall.filteredSignal
            t == featureCall.timestamps
            first == IF t = <<>> THEN 1 ELSE NearestSample(t, RInt(300))
            last == IF t = <<>> THEN 1 ELSE NearestSample(t, RInt(600))
        IN  (signal = <<>> \/ first > Len(signal) \/ first > last)
            => featureCall.result = [mean |-> RInt(0), peak |-> RInt(0), latency |-> RInt(0)]

\* The extractor has been called on a signal whose sample nearest 300 ms
\* comes after its sample nearest 600 ms, and has returned the zero vector.
C20_Witness ==
    /\ featureCall.called
    /\ featureCall.filteredSignal = <<RInt(1), RInt(0 - 2)>>
    /\ featureCall.timestamps = <<RInt(600), RInt(300)>>
    /\ featureCall.result = [mean |-> RInt(0), peak |-> RInt(0), latency |-> RInt(0)]

----------------------------------------------------------------------------
(* Properties of the signal generator *)

\* C18: the noise of every sample is the standard normal variate times the
\* noiseLevel the caller passed (times 0.5 when none was passed); so with
\* noiseLevel = 0 every sample's noise is 0: a non-target epoch is all zeros
\* and a target epoch is the bell alone.
C18_NoiseScaledByGivenLevel ==
    signalCall.called =>
        LET level == IF signalCall.params.noiseLevel.given
                     THEN signalCall.params.noiseLevel.value
                     ELSE Rat(1, 2)
            raw == signalCall.result.rawSignal
        IN  /\ \A i \in 1..Len(raw) :
                  raw[i].baselineNoise = RMul(Z0(signalCall.pattern, i - 1), level)
            /\ level = RInt(0) => \A i \in 1..Len(raw) : raw[i].baselineNoise = RInt(0)

\* C19: timestamps and rawSignal both have floor(samplingRateHz * durationMs
\* / 1000) entries, with 250 Hz and 1000 ms for an omitted parameter, and
\* timestamps[i] = i * 1000 / samplingRateHz, strictly increasing (stated
\* for sampling rates other than 0).
C19_LengthAndTimestamps ==
    (signalCall.called /\ signalCall.params.samplingRate # Given(0)) =>
        LET rate == IF signalCall.params.samplingRate.given
                    THEN signalCall.params.samplingRate.value ELSE 250
            ms == IF signalCall.params.duration.given
                  THEN signalCall.params.duration.value ELSE 1000
            n == (rate * ms) \div 1000
            t == signalCall.result.timestamps
        IN  /\ Len(t) = n
            /\ Len(signalCall.result.rawSignal) = n
            /\ \A i \in 1..Len(t) : t[i].num * rate = (i - 1) * 1000 * t[i].den
            /\ \A i \in 2..Len(t) : RLess(t[i - 1], t[i])

----------------------------------------------------------------------------
(* Properties of the /api/eeg routes *)

\* C17: a POST /api/eeg/extract-features or /api/eeg/preprocess request
\* whose signal array and timestamps array have different lengths is
\* answered 400, and extractFeatures (or preprocessSignal) is not called.
C17_MismatchedLengthsRejected ==
    (/\ eegRequest.route \in {"extract-features", "preprocess"}
     /\ eegRequest.signal.isArray
     /\ eegRequest.timestamps.isArray
     /\ Len(eegRequest.signal.elements) # Len(eegRequest.timestamps.elements))
    => /\ eegRequest.status = 400
       /\ ~eegRequest.coreCalled

----------------------------------------------------------------------------
(* Properties of the preprocessing *)

----------------------------------------------------------------------------
(* Properties of the trial interval and of the stored correctness *)

\* C22: recording trials adjusts the session's trial interval with the recent
\* accuracy, within 2000-3000 ms: when a trial is recorded at a recent
\* accuracy below 0.40 while the interval is at its floor of 2000 ms, the
\* calibration written has another interval, still within 2000-3000 ms.
C22_TrialIntervalAdjusted ==
    [][\A r \in Slots :
        LET s == requests[r].sessionId
        IN  (/\ requests[r].pc = "updateCalibration"
             /\ requests'[r].pc = "done"
             /\ requests'[r].status = 201
             /\ RLess(requests[r].update.recentAccuracy, Rat(2, 5))
             /\ calibrations[s].trialInterval = 2000)
            => /\ calibrations'[s].trialInterval # 2000
               /\ calibrations'[s].trialInterval >= 2000
               /\ calibrations'[s].trialInterval <= 3000]_vars

\* C27: every stored Trial's correctness flag agrees with its stored
\* targetType and its most recent Prediction: true exactly when (target and
\* YES) or (nontarget and NO), re-recorded trials included.
C27_AccuracyAgreesWithRow ==
    \A s \in DOMAIN trials : \A i \in 1..Len(trials[s]) :
        LET row == trials[s][i]
            last == row.predictions[Len(row.predictions)]
        IN  row.accuracy <=>
                \/ row.targetType = "target" /\ last.prediction = "YES"
                \/ row.targetType = "nontarget" /\ last.prediction = "NO"

----------------------------------------------------------------------------
(* Properties of training and of the default classifier *)

\* C26: after every train call that is accepted (labels aligned, a YES and a
\* NO example at least, one of each included) the classifier is trained with
\* defined weights and a defined bias.
C26_TrainedParametersDefined ==
    (lastCall.op = "train" /\ classifier.isTrained) =>
        /\ \A i \in 1..3 : classifier.weights[i].den # 0
        /\ classifier.bias.den # 0

\* C23: the classifier behind POST /api/eeg/classify answers YES for every
\* feature vector with peak >= |mean| and latency >= 300, the vectors
\* extractFeatures gives with such a latency included.
C23_AlwaysYesInWindow ==
    (eegRequest.route = "classify" /\ eegRequest.status = 200) =>
        LET mean == eegRequest.body.mean.value
            peak == eegRequest.body.peak.value
            latency == eegRequest.body.latency.value
        IN  (/\ peak.num * mean.den >= Abs(mean.num) * peak.den
             /\ latency.num >= 300 * latency.den)
            => eegRequest.response.result.prediction = "YES"

\* The vector of a window whose mean is negative, {mean: -1, peak: 1,
\* latency: 300}, has been classified YES.
C23_Witness ==
    /\ eegRequest.route = "classify"
    /\ eegRequest.status = 200
    /\ eegRequest.body.mean.value = RInt(0 - 1)
    /\ eegRequest.body.peak.value = RInt(1)
    /\ eegRequest.body.latency.value = RInt(300)
    /\ eegRequest.response.result.prediction = "YES"

----------------------------------------------------------------------------
(* C28 *)

\* C28: the adaptation converges. From any calibration within the bounds, a
\* run of trials of recent accuracy above 0.70 brings the calibration to
\* flash speed 1.5 and four objects and keeps it there; a run of recent
\* accuracy below 0.40 brings it to flash speed 0.6 and three objects and
\* keeps it there.
C28_Converges ==
    /\ HighRegime ~> []AtHardest
    /\ LowRegime ~> []AtEasiest

\* A run of high accuracy that started at flash speed 1.0 with three objects
\* arrives, on its third trial, at 1.5 and four objects.
C28_Witness ==
    /\ IsHighAccuracy(adaptCall.recentAccuracy)
    /\ adaptCall.currentFlashSpeed = 1391500
    /\ adaptCall.currentObjectCount = MaxObjectCount
    /\ adaptCall.result.newFlashSpeed = MaxFlashSpeed
    /\ adaptCall.result.newObjectCount = MaxObjectCount

----------------------------------------------------------------------------
(* C24 *)

\* The POSTs of a trial sent for the i-th call of runTrial.
PostsOfRun(i) == {k \in DOMAIN posts : posts[k].run = i}

\* C24: each completed game trial is recorded exactly once. A call of
\* runTrial that ran to its end has led to exactly one POST
\* /api/sessions/:sessionId/trials.
C24_RecordedOnce ==
    \A i \in DOMAIN board.runs :
        board.runs[i].pc = "done" => Cardinality(PostsOfRun(i)) = 1

----------------------------------------------------------------------------
(* C25 *)

\* The calls of runTrial that are flashing, processing or being recorded.
RunsInFlight ==
    {i \in DOMAIN board.runs : board.runs[i].pc \in {"flash", "processSignal", "recordTrial"}}

\* C25: at most one runTrial is in flight at any time, and the trials of the
\* session are sent with the numbers 1, 2, 3, ... in this order.
C25_OneRunIncreasingNumbers ==
    /\ Cardinality(RunsInFlight) <= 1
    /\ \A k \in DOMAIN posts : posts[k].trialNumber = k

----------------------------------------------------------------------------
(* C29 *)

\* C29: while the app is paused no trial is recorded. A step that sends a
\* POST /api/sessions/:sessionId/trials is taken with the app playing.
C29_NoPostWhilePaused ==
    [][Len(posts') > Len(posts) => app.appState = "playing"]_vars

----------------------------------------------------------------------------
(* C30 *)

\* A trial classified correctly: a target predicted YES, a non-target
\* predicted NO.
ClassifiedCorrectly(result) ==
    \/ result.targetType = "target" /\ result.prediction = "YES"
    \/ result.targetType = "nontarget" /\ result.prediction = "NO"

\* C30: the accuracy trend never holds more than 10 entries, and the entry
\* appended for a completed trial is 1 exactly when the trial was classified
\* correctly.
C30_TrendOfCorrectTrials ==
    /\ [](Len(app.recentAccuracies) <= 10)
    /\ [][\A h \in DOMAIN app.completing :
              (app.completing[h].pc = "recordTrial" /\ app'.completing[h].pc = "done")
                  => /\ Len(app'.recentAccuracies) > 0
                     /\ app'.recentAccuracies[Len(app'.recentAccuracies)] = 1
                            <=> ClassifiedCorrectly(app.completing[h].result)]_vars

====
